---- MODULE Spec2Model ----
(***************************************************************************)
(* Fight Night Discord bot: the notification scheduler (hourly tick, due   *)
(* hour, day gate, dedup ledger, day-before reminder), the persistent      *)
(* store it reads and writes, the slash-command handlers that change the   *)
(* configuration, and the ESPN calendar selector behind the UFC provider.  *)
(*                                                                         *)
(* Instants are minutes since 2025-01-01T00:00:00Z.  A calendar date key   *)
(* (Go layouts "20060102" and "2006-01-02") is the integer yyyymmdd, whose *)
(* numeric order is the calendar order of the formatted strings.           *)
(***************************************************************************)
EXTENDS Integers, Sequences, FiniteSets, TLC

----------------------------------------------------------------------------
(* Bounds of the model *)

\* hours the wall clock advances past the first instant of a behaviour
MaxHours == 3
\* slash commands handled in one behaviour
MaxCmds == 1

----------------------------------------------------------------------------
(* Civil time (package time of the Go runtime, as used by the notifier) *)

\* days of 2025 before the first day of month mo
DaysBeforeMonth(mo) ==
    CASE mo = 1 -> 0 [] mo = 2 -> 31 [] mo = 3 -> 59 [] mo = 4 -> 90
      [] mo = 5 -> 120 [] mo = 6 -> 151 [] mo = 7 -> 181 [] mo = 8 -> 212
      [] mo = 9 -> 243 [] mo = 10 -> 273 [] mo = 11 -> 304 [] mo = 12 -> 334
      [] OTHER -> 365

\* the instant written "2025-mo-dTh:mi:00Z"
Instant(mo, d, h, mi) == ((DaysBeforeMonth(mo) + d - 1) * 24 + h) * 60 + mi

\* a timestamp string of the upstream API: parseable, empty, or garbage
IsoTime(mo, d, h, mi) == [kind |-> "iso", mo |-> mo, d |-> d, h |-> h, mi |-> mi]
EmptyTime == [kind |-> "empty"]
BadTime == [kind |-> "bad"]

\* parseAPITime: the instant of a supported layout, an error otherwise
parseAPITime(s) ==
    IF s.kind = "iso"
    THEN [ok |-> TRUE, t |-> Instant(s.mo, s.d, s.h, s.mi)]
    ELSE [ok |-> FALSE, t |-> 0]

\* Time.Format(time.RFC3339) of an instant in UTC (whole minutes)
FormatRFC3339(t) ==
    LET day == t \div 1440
        mo == CHOOSE m \in 1..12 : DaysBeforeMonth(m) <= day /\ day < DaysBeforeMonth(m + 1)
    IN IsoTime(mo, day - DaysBeforeMonth(mo) + 1, (t % 1440) \div 60, t % 60)

\* the IANA zones the model knows (time.LoadLocation succeeds on these)
KnownZones == {"UTC", "Asia/Tokyo", "Asia/Kolkata", "America/New_York",
               "Pacific/Kiritimati", "Pacific/Pago_Pago"}

\* offset from UTC, in minutes, of a zone at an instant.  New York observes
\* daylight time from 2025-03-09T07:00Z to 2025-11-02T06:00Z.
ZoneOffset(zone, t) ==
    CASE zone = "Asia/Tokyo" -> 540
      [] zone = "Pacific/Kiritimati" -> 840
      [] zone = "Pacific/Pago_Pago" -> -660
      [] zone = "Asia/Kolkata" -> 330
      [] zone = "America/New_York" ->
            IF t >= Instant(3, 9, 7, 0) /\ t < Instant(11, 2, 6, 0) THEN -240 ELSE -300
      [] OTHER -> 0

\* time.LoadLocation: "" and "UTC" load UTC, an unknown name is an error
LoadLocation(name) ==
    IF name = "" THEN [ok |-> TRUE, zone |-> "UTC"]
    ELSE IF name \in KnownZones THEN [ok |-> TRUE, zone |-> name]
    ELSE [ok |-> FALSE, zone |-> "UTC"]

\* t.In(loc): minutes of local wall-clock time since 2025-01-01T00:00 local
LocalMinutes(t, zone) == t + ZoneOffset(zone, t)

\* t.In(loc).Hour()
LocalHour(t, zone) == (LocalMinutes(t, zone) \div 60) % 24

\* the local day number (0 = 2025-01-01) of an instant
LocalDay(t, zone) == LocalMinutes(t, zone) \div 1440

\* the yyyymmdd key of a day number (December 2024 .. January 2026)
CivilKey(day) ==
    IF day < 0 THEN 20241200 + (32 + day)
    ELSE IF day >= 365 THEN 20260100 + (day - 364)
    ELSE LET mo == CHOOSE m \in 1..12 :
                     DaysBeforeMonth(m) <= day /\ day < DaysBeforeMonth(m + 1)
         IN 20250000 + mo * 100 + (day - DaysBeforeMonth(mo) + 1)

\* t.In(loc).Format("20060102") / Format("2006-01-02")
DateKey(t, zone) == CivilKey(LocalDay(t, zone))

\* t.In(loc).AddDate(0, 0, -1).Format("2006-01-02")
PrevDateKey(t, zone) == CivilKey(LocalDay(t, zone) - 1)

----------------------------------------------------------------------------
(* State *)

VARIABLES
    clock,        \* the wall clock: the instant of the current UTC hour boundary
    armed,        \* the timer of scheduleHourly is set for this boundary
    queue,        \* guilds the running tick has still to evaluate
    rows,         \* guild_settings: the guild ids that have a row
    st,           \* guild_settings: the columns of each guild's row
    lastPosted,   \* last_posted: guild -> org -> date key (0: no row)
    scheduled,    \* scheduled_events: rows [g, org, date, id]
    mgr,          \* sources.Manager: the orgs with a registered Provider
    calendar,     \* the upstream calendar the UFC provider fetches
    cmds,         \* slash commands the users have still to issue
    sentLog,      \* history: every successful channel send
    createdLog,   \* history: every successful scheduled-event creation
    lastCall,     \* history: per guild, its latest evaluation of this hour
    lastForced,   \* history: the /create-announcement call just handled
    scan,         \* a sweep of shouldRunNow over the hourly ticks of some days
    selCall,      \* a series of selector calls on one calendar
    resCall,      \* a resolveFullEvent call on one scoreboard root
    card,         \* an event's bout list and the embed built from it
    fetchCall,    \* a FetchNextOrOngoingEventAndCard call and what it returned
    provCall,     \* successive NextEvent calls on one Provider instance
    race          \* where the tick and a /create-event handler of one guild stand

vars == <<clock, armed, queue, rows, st, lastPosted, scheduled, mgr, calendar,
          cmds, sentLog, createdLog, lastCall, lastForced, scan, selCall, resCall, card,
          fetchCall, provCall, race>>

\* the state of the running bot, and the state of the function sweeps
botVars == <<clock, armed, queue, rows, st, lastPosted, scheduled, mgr, calendar,
             cmds, sentLog, createdLog, lastCall, lastForced>>
sweepVars == <<scan, selCall, resCall, card, fetchCall, provCall, race>>

Guilds == {"g1", "g2"}
Orgs == {"ufc"}

\* config.Config as loaded from an environment that sets RUN_AT=19:00 and
\* leaves TZ unset
HHMM(hh, mm) == [kind |-> "hhmm", hh |-> hh, mm |-> mm]
DefaultRunAt == HHMM(16, 0)
DefaultTZ == "America/New_York"
\* time.Local of a process: the zone the TZ environment variable names (UTC
\* when it does not load), the zone of the system when TZ is unset
ProcessLocal(tzEnv, systemZone) ==
    IF tzEnv = "" THEN systemZone ELSE LoadLocation(tzEnv).zone
\* config.Load: RunAt and TZ from the environment, TZ falling back to
\* DefaultTZ when unset ("").  Local carries time.Local of the same process.
Load(tzEnv, runAt, systemZone) ==
    [TZ |-> IF tzEnv = "" THEN DefaultTZ ELSE tzEnv, RunAt |-> runAt,
     Local |-> ProcessLocal(tzEnv, systemZone)]
\* the zone of the host the bot runs on
SystemZone == "UTC"
Cfg == Load("", HHMM(19, 0), SystemZone)

----------------------------------------------------------------------------
(* state.Store: the getters *)

\* a guild_settings row whose columns are all NULL (-1 and "" stand for NULL)
NullRow == [channel |-> "", tz |-> "", enabled |-> -1, org |-> "",
            run_hour |-> -1, events |-> -1, ufc_ignore |-> -1]

\* SELECT guild_id FROM guild_settings, in rowid order
GuildIDs == IF rows = {} THEN <<>>
            ELSE IF rows = {"g1"} THEN <<"g1">>
            ELSE IF rows = {"g2"} THEN <<"g2">>
            ELSE <<"g1", "g2">>

GetGuildSettings(g) ==
    [channel |-> st[g].channel, tz |-> st[g].tz, lastPosted |-> lastPosted[g]]

\* a getter that reports notifications enabled when the column is NULL
GetGuildNotifyEnabledDefaultOn(g) == IF st[g].enabled = -1 THEN TRUE ELSE st[g].enabled # 0

GetGuildNotifyEnabled(g) == IF st[g].enabled = -1 THEN FALSE ELSE st[g].enabled # 0

HasGuildOrg(g) == st[g].org # ""

GetGuildOrg(g) == IF st[g].org = "" THEN "ufc" ELSE st[g].org

GetGuildRunHour(g) == st[g].run_hour

GetGuildEventsEnabled(g) == IF st[g].events = -1 THEN FALSE ELSE st[g].events # 0

GetGuildUFCIgnoreContender(g) == IF st[g].ufc_ignore = -1 THEN TRUE ELSE st[g].ufc_ignore # 0

HasScheduledEvent(g, org, date) ==
    \E r \in scheduled : r.g = g /\ r.org = org /\ r.date = date

----------------------------------------------------------------------------
(* Dueness *)

\* a guildLocation that ignores the guild's own zone name
guildLocationNoOverride(tzStored, cfg, local) ==
    LET loaded == LoadLocation(cfg.TZ)
    IN [loc |-> IF loaded.ok THEN loaded.zone ELSE local, tz |-> cfg.TZ]

\* guildLocation: the guild's zone name, else cfg.TZ; time.Local when it
\* does not load.  local is the zone time.Local stands for.
guildLocation(tzStored, cfg, local) ==
    LET tzName == IF tzStored = "" THEN cfg.TZ ELSE tzStored
        loaded == LoadLocation(tzName)
    IN [loc |-> IF loaded.ok THEN loaded.zone ELSE local, tz |-> tzName]

\* time.Local of the process the configuration was loaded in
LocalZone(cfg) == cfg.Local

\* parseHHMM on "hh:mm"; any other shape is an error
parseHHMM(s) ==
    IF s.kind # "hhmm" THEN [ok |-> FALSE, h |-> 0, m |-> 0]
    ELSE IF s.hh < 0 \/ s.hh > 23 THEN [ok |-> FALSE, h |-> 0, m |-> 0]
    ELSE IF s.mm < 0 \/ s.mm > 59 THEN [ok |-> FALSE, h |-> 0, m |-> 0]
    ELSE [ok |-> TRUE, h |-> s.hh, m |-> s.mm]

\* a target hour that falls back to the zero hour of a failed parse
targetHourZeroOnError(runHour, cfg) ==
    IF runHour < 0 THEN parseHHMM(cfg.RunAt).h ELSE runHour

\* the hour shouldRunNow compares with: the guild's run hour, else RUN_AT's
\* hour, else the hour of config.DefaultRunAt
targetHour(runHour, cfg) ==
    IF runHour < 0
    THEN IF parseHHMM(cfg.RunAt).ok THEN parseHHMM(cfg.RunAt).h ELSE DefaultRunAt.hh
    ELSE runHour

\* shouldRunNow on explicit settings
shouldRunNowAt(tzStored, runHour, cfg, instant) ==
    LET loc == guildLocation(tzStored, cfg, LocalZone(cfg)).loc
    IN LocalHour(instant, loc) = targetHour(runHour, cfg)

shouldRunNow(g, cfg, instant) ==
    shouldRunNowAt(GetGuildSettings(g).tz, GetGuildRunHour(g), cfg, instant)

----------------------------------------------------------------------------
(* espn: the calendar selector.  A label is a sequence of words; a calendar *)
(* entry is [label, startDate, endDate].                                    *)

\* strings.ToLower on a word
ToLowerWord(w) ==
    CASE w = "Contender" -> "contender"
      [] w = "CONTENDER" -> "contender"
      [] w = "Series" -> "series"
      [] w = "SERIES" -> "series"
      [] w = "Event" -> "event"
      [] w = "X" -> "x"
      [] w = "Y" -> "y"
      [] OTHER -> w

ToLower(s) == [i \in 1..Len(s) |-> ToLowerWord(s[i])]

\* strings.Contains: sub occurs in s as a run of consecutive words
Contains(s, sub) ==
    \E k \in 0..(Len(s) - Len(sub)) : \A j \in 1..Len(sub) : s[k + j] = sub[j]

\* parseISOUTC: as parseAPITime, normalised to UTC
parseISOUTC(s) == parseAPITime(s)

\* an ignore test that compares without lowering the case
containsAnyIgnoreExactCase(label, ignores) ==
    IF label = <<>> \/ ignores = <<>> THEN FALSE
    ELSE \E i \in 1..Len(ignores) :
            ignores[i] # <<>> /\ Contains(label, ignores[i])

\* containsAnyIgnore
containsAnyIgnore(label, ignores) ==
    IF label = <<>> \/ ignores = <<>> THEN FALSE
    ELSE \E i \in 1..Len(ignores) :
            ignores[i] # <<>> /\ Contains(ToLower(label), ToLower(ignores[i]))

\* the end instant of an entry: 0 (the zero time) when empty or unparseable
entryEnd(ce) ==
    IF ce.endDate.kind # "empty" /\ parseISOUTC(ce.endDate).ok
    THEN parseISOUTC(ce.endDate).t ELSE 0

\* the ONGOING test of findNextOrOngoingEventUTC
isOngoing(stUTC, enUTC, nowUTC) ==
    enUTC # 0 /\ (nowUTC = stUTC \/ (nowUTC > stUTC /\ nowUTC < enUTC))

\* the NEXT test of findNextOrOngoingEventUTC
isNext(stUTC, nowUTC) == stUTC > nowUTC

\* a selector loop in which a later entry with the same start replaces the
\* best one
RECURSIVE selectLoopLastOnTie(_, _, _, _, _)
selectLoopLastOnTie(cal, ignores, nowUTC, i, acc) ==
    IF i > Len(cal) THEN acc
    ELSE LET ce == cal[i]
             st0 == parseISOUTC(ce.startDate)
             en == entryEnd(ce)
         IN IF containsAnyIgnore(ce.label, ignores) \/ ce.startDate.kind = "empty" \/ ~st0.ok
            THEN selectLoopLastOnTie(cal, ignores, nowUTC, i + 1, acc)
            ELSE IF isOngoing(st0.t, en, nowUTC)
            THEN selectLoopLastOnTie(cal, ignores, nowUTC, i + 1,
                     IF acc.ongoing = 0 \/ st0.t <= acc.ongoingST
                     THEN [acc EXCEPT !.ongoing = i, !.ongoingST = st0.t, !.ongoingEN = en]
                     ELSE acc)
            ELSE IF isNext(st0.t, nowUTC)
            THEN selectLoopLastOnTie(cal, ignores, nowUTC, i + 1,
                     IF acc.next = 0 \/ st0.t <= acc.nextST
                     THEN [acc EXCEPT !.next = i, !.nextST = st0.t, !.nextEN = en]
                     ELSE acc)
            ELSE selectLoopLastOnTie(cal, ignores, nowUTC, i + 1, acc)

\* a selector loop that keeps the first future entry it meets
RECURSIVE selectLoopKeepFirst(_, _, _, _, _)
selectLoopKeepFirst(cal, ignores, nowUTC, i, acc) ==
    IF i > Len(cal) THEN acc
    ELSE LET ce == cal[i]
             st0 == parseISOUTC(ce.startDate)
             en == entryEnd(ce)
         IN IF containsAnyIgnore(ce.label, ignores) \/ ce.startDate.kind = "empty" \/ ~st0.ok
            THEN selectLoopKeepFirst(cal, ignores, nowUTC, i + 1, acc)
            ELSE IF isOngoing(st0.t, en, nowUTC)
            THEN selectLoopKeepFirst(cal, ignores, nowUTC, i + 1,
                     IF acc.ongoing = 0 \/ st0.t < acc.ongoingST
                     THEN [acc EXCEPT !.ongoing = i, !.ongoingST = st0.t, !.ongoingEN = en]
                     ELSE acc)
            ELSE IF isNext(st0.t, nowUTC)
            THEN selectLoopKeepFirst(cal, ignores, nowUTC, i + 1,
                     IF acc.next = 0
                     THEN [acc EXCEPT !.next = i, !.nextST = st0.t, !.nextEN = en]
                     ELSE acc)
            ELSE selectLoopKeepFirst(cal, ignores, nowUTC, i + 1, acc)

\* the loop of findNextOrOngoingEventUTC from entry i on; acc holds the
\* best ongoing and next entries so far (index 0: none yet)
RECURSIVE selectLoop(_, _, _, _, _)
selectLoop(cal, ignores, nowUTC, i, acc) ==
    IF i > Len(cal) THEN acc
    ELSE LET ce == cal[i]
             st0 == parseISOUTC(ce.startDate)
             en == entryEnd(ce)
         IN IF containsAnyIgnore(ce.label, ignores) \/ ce.startDate.kind = "empty" \/ ~st0.ok
            THEN selectLoop(cal, ignores, nowUTC, i + 1, acc)
            ELSE IF isOngoing(st0.t, en, nowUTC)
            THEN selectLoop(cal, ignores, nowUTC, i + 1,
                     IF acc.ongoing = 0 \/ st0.t < acc.ongoingST
                     THEN [acc EXCEPT !.ongoing = i, !.ongoingST = st0.t, !.ongoingEN = en]
                     ELSE acc)
            ELSE IF isNext(st0.t, nowUTC)
            THEN selectLoop(cal, ignores, nowUTC, i + 1,
                     IF acc.next = 0 \/ st0.t < acc.nextST
                     THEN [acc EXCEPT !.next = i, !.nextST = st0.t, !.nextEN = en]
                     ELSE acc)
            ELSE selectLoop(cal, ignores, nowUTC, i + 1, acc)

\* a selector that returns the best future entry before the ongoing one
findNextOrOngoingEventUTCFutureFirst(cal, ignores, nowUTC) ==
    LET acc == selectLoop(cal, ignores, nowUTC, 1,
                   [ongoing |-> 0, ongoingST |-> 0, ongoingEN |-> 0,
                    next |-> 0, nextST |-> 0, nextEN |-> 0])
    IN IF acc.next # 0
       THEN [pick |-> acc.next, st |-> acc.nextST, en |-> acc.nextEN, tag |-> "future"]
       ELSE IF acc.ongoing # 0
       THEN [pick |-> acc.ongoing, st |-> acc.ongoingST, en |-> acc.ongoingEN, tag |-> "ongoing"]
       ELSE [pick |-> 0, st |-> 0, en |-> 0, tag |-> "none"]

\* findNextOrOngoingEventUTC: pick 0 is errNoEventSelected
findNextOrOngoingEventUTC(cal, ignores, nowUTC) ==
    LET acc == selectLoop(cal, ignores, nowUTC, 1,
                   [ongoing |-> 0, ongoingST |-> 0, ongoingEN |-> 0,
                    next |-> 0, nextST |-> 0, nextEN |-> 0])
    IN IF acc.ongoing # 0
       THEN [pick |-> acc.ongoing, st |-> acc.ongoingST, en |-> acc.ongoingEN, tag |-> "ongoing"]
       ELSE IF acc.next # 0
       THEN [pick |-> acc.next, st |-> acc.nextST, en |-> acc.nextEN, tag |-> "future"]
       ELSE [pick |-> 0, st |-> 0, en |-> 0, tag |-> "none"]

----------------------------------------------------------------------------
(* espn: the event resolver.  An event reference is empty, a URL with a    *)
(* "/events/<digits>" segment, or a URL without one.                        *)

NoRef == [kind |-> "empty", id |-> ""]
EventRef(id) == [kind |-> "events", id |-> id]
OtherRef == [kind |-> "other", id |-> ""]

\* an id extraction that never finds an id
eventIDFromRefNever(ref) == [id |-> "", ok |-> FALSE]

\* eventIDFromRef: the digits after "/events/", when the reference has them
eventIDFromRef(ref) ==
    IF ref.kind = "empty" THEN [id |-> "", ok |-> FALSE]
    ELSE IF ref.kind = "events" THEN [id |-> ref.id, ok |-> TRUE]
    ELSE [id |-> "", ok |-> FALSE]

\* similarName: equal or one contained in the other, ignoring case
similarName(a, b) ==
    IF a = <<>> \/ b = <<>> THEN FALSE
    ELSE \/ ToLower(a) = ToLower(b)
         \/ Contains(ToLower(a), ToLower(b))
         \/ Contains(ToLower(b), ToLower(a))

\* a scoreboard event and a calendar entry with its event reference
RootEvent(id, name, shortName, date) ==
    [ID |-> id, Name |-> name, ShortName |-> shortName, Date |-> date]
RefEntry(label, startDate, ref) ==
    [label |-> label, startDate |-> startDate, endDate |-> EmptyTime, ref |-> ref]

\* the event decoded from the response of a fetch of the reference
FetchedEvent == RootEvent("fetched", <<>>, <<>>, EmptyTime)
NoRootEvent == RootEvent("", <<>>, <<>>, EmptyTime)

\* the least element of a set of indices, 0 when it is empty
firstIndex(S) == IF S = {} THEN 0 ELSE CHOOSE i \in S : \A j \in S : i <= j

\* a fuzzy test that does not look at the dates
fuzzyMatchNameOnly(ev, pick) ==
    \/ similarName(ev.Name, pick.label) \/ similarName(ev.ShortName, pick.label)
    \/ similarName(pick.label, ev.Name) \/ similarName(pick.label, ev.ShortName)

\* the fuzzy tier's test of one event: its date parses, lies within 48
\* hours of the entry's start (the zero time when that does not parse),
\* and a name is similar to the label
fuzzyMatch(ev, pick) ==
    LET pickStart == parseISOUTC(pick.startDate)
        evT == parseISOUTC(ev.Date)
        dt == IF evT.t >= pickStart.t THEN evT.t - pickStart.t ELSE pickStart.t - evT.t
    IN /\ evT.ok
       /\ pickStart.ok /\ dt <= 48 * 60
       /\ \/ similarName(ev.Name, pick.label) \/ similarName(ev.ShortName, pick.label)
          \/ similarName(pick.label, ev.Name) \/ similarName(pick.label, ev.ShortName)

\* a resolver that returns an empty event, and no error, when no tier
\* yields a record
resolveFullEventEmptyOnMiss(events, pick, allowFetch, httpClient, fetchOK) ==
    LET ref == eventIDFromRef(pick.ref)
        byID == IF ref.ok THEN firstIndex({i \in 1..Len(events) : events[i].ID = ref.id})
                ELSE 0
        byName == firstIndex({i \in 1..Len(events) : fuzzyMatch(events[i], pick)})
        fetching == allowFetch /\ pick.ref.kind # "empty" /\ httpClient
    IN IF byID # 0
       THEN [ev |-> events[byID], idx |-> byID, err |-> FALSE, tier |-> "id",
             fuzzy |-> FALSE, fetched |-> FALSE]
       ELSE IF byName # 0
       THEN [ev |-> events[byName], idx |-> byName, err |-> FALSE, tier |-> "fuzzy",
             fuzzy |-> TRUE, fetched |-> FALSE]
       ELSE IF fetching /\ fetchOK
       THEN [ev |-> FetchedEvent, idx |-> 0, err |-> FALSE, tier |-> "fetch",
             fuzzy |-> TRUE, fetched |-> TRUE]
       ELSE [ev |-> NoRootEvent, idx |-> 0, err |-> FALSE,
             tier |-> IF fetching THEN "fetch" ELSE "none",
             fuzzy |-> TRUE, fetched |-> fetching]

\* a resolver that fetches the reference before it searches the root
resolveFullEventFetchFirst(events, pick, allowFetch, httpClient, fetchOK) ==
    LET ref == eventIDFromRef(pick.ref)
        byID == IF ref.ok THEN firstIndex({i \in 1..Len(events) : events[i].ID = ref.id})
                ELSE 0
        byName == firstIndex({i \in 1..Len(events) : fuzzyMatch(events[i], pick)})
    IN IF allowFetch /\ pick.ref.kind # "empty" /\ httpClient /\ fetchOK
       THEN [ev |-> FetchedEvent, idx |-> 0, err |-> FALSE, tier |-> "fetch",
             fuzzy |-> FALSE, fetched |-> TRUE]
       ELSE IF byID # 0
       THEN [ev |-> events[byID], idx |-> byID, err |-> FALSE, tier |-> "id",
             fuzzy |-> FALSE, fetched |-> FALSE]
       ELSE IF byName # 0
       THEN [ev |-> events[byName], idx |-> byName, err |-> FALSE, tier |-> "fuzzy",
             fuzzy |-> TRUE, fetched |-> FALSE]
       ELSE [ev |-> NoRootEvent, idx |-> 0, err |-> TRUE, tier |-> "none",
             fuzzy |-> TRUE, fetched |-> FALSE]

\* resolveFullEvent for a non-nil entry.  fetchOK: the GET of the reference
\* answers 2xx with a decodable body.  The result names the tier that
\* returned (tier), the index of the returned record in root.Events (idx,
\* 0 when it is not one of them), whether the fuzzy loop was entered
\* (fuzzy) and whether a request was sent (fetched).
resolveFullEvent(events, pick, allowFetch, httpClient, fetchOK) ==
    LET ref == eventIDFromRef(pick.ref)
        byID == IF ref.ok THEN firstIndex({i \in 1..Len(events) : events[i].ID = ref.id})
                ELSE 0
        byName == firstIndex({i \in 1..Len(events) : fuzzyMatch(events[i], pick)})
    IN IF byID # 0
       THEN [ev |-> events[byID], idx |-> byID, err |-> FALSE, tier |-> "id",
             fuzzy |-> FALSE, fetched |-> FALSE]
       ELSE IF byName # 0
       THEN [ev |-> events[byName], idx |-> byName, err |-> FALSE, tier |-> "fuzzy",
             fuzzy |-> TRUE, fetched |-> FALSE]
       ELSE IF allowFetch /\ pick.ref.kind # "empty" /\ httpClient
       THEN IF fetchOK
            THEN [ev |-> FetchedEvent, idx |-> 0, err |-> FALSE, tier |-> "fetch",
                  fuzzy |-> TRUE, fetched |-> TRUE]
            ELSE [ev |-> NoRootEvent, idx |-> 0, err |-> TRUE, tier |-> "fetch",
                  fuzzy |-> TRUE, fetched |-> TRUE]
       ELSE [ev |-> NoRootEvent, idx |-> 0, err |-> TRUE, tier |-> "none",
             fuzzy |-> TRUE, fetched |-> FALSE]

----------------------------------------------------------------------------
(* espn: the full card of the resolved event, with the fallback to the     *)
(* core API.  A competition is given by what listFullCard extracts from it. *)

Competition(wc, red, redRec, blue, blueRec, winner, startDate) ==
    [wc |-> wc, red |-> red, redRec |-> redRec, blue |-> blue, blueRec |-> blueRec,
     winner |-> winner, StartDate |-> startDate]

\* espn.Fight; Scheduled 0 is the zero time
Fight(wc, red, redRec, blue, blueRec, winner, sched) ==
    [WeightClass |-> wc, RedName |-> red, RedRecord |-> redRec, BlueName |-> blue,
     BlueRecord |-> blueRec, Winner |-> winner, Scheduled |-> sched]

\* an event with its competitions
FullEvent(id, name, date, comps) ==
    [ID |-> id, Name |-> name, ShortName |-> <<>>, Date |-> date, Competitions |-> comps]

\* listFullCard: one fight per competition
listFullCard(ev) ==
    [i \in 1..Len(ev.Competitions) |->
        LET c == ev.Competitions[i]
            t == parseISOUTC(c.StartDate)
        IN Fight(c.wc, c.red, c.redRec, c.blue, c.blueRec, c.winner,
                 IF c.StartDate.kind # "empty" /\ t.ok THEN t.t ELSE 0)]

\* espn.Bout
CoreBout(f1, f2, wc) == [Fighter1 |-> f1, Fighter2 |-> f2, WeightClass |-> wc]

\* one item of the core API's competition list: ok is FALSE when the GET of
\* the competition or of one of its athletes fails; names are the display
\* names that are not empty, wc the type's text
CoreItem(ok, wc, names) == [ok |-> ok, wc |-> wc, names |-> names]

\* FetchUFCCardForEvent.  core.list is what the GET of the competition list
\* meets ("ok", "transport" or "status"), core.items the items of the list.
FetchUFCCardForEvent(eventID, core) ==
    IF eventID = "" THEN [bouts |-> <<>>, err |-> TRUE]
    ELSE IF core.list # "ok" THEN [bouts |-> <<>>, err |-> TRUE]
    ELSE IF Len(core.items) = 0 THEN [bouts |-> <<>>, err |-> FALSE]
    ELSE IF \E i \in 1..Len(core.items) : ~core.items[i].ok
    THEN [bouts |-> <<>>, err |-> TRUE]
    ELSE [bouts |-> [i \in 1..Len(core.items) |->
                        LET names == core.items[i].names
                        IN CoreBout(IF Len(names) > 0 THEN names[1] ELSE "",
                                    IF Len(names) > 1 THEN names[2] ELSE "",
                                    core.items[i].wc)],
          err |-> FALSE]

\* what FetchNextOrOngoingEventAndCard returns, with resolved (the resolver
\* returned a record) and secondary (FetchUFCCardForEvent was called)
FetchResult(ev, fights, st0, en, ok, err, resolved, secondary) ==
    [ev |-> ev, fights |-> fights, st |-> st0, en |-> en, ok |-> ok, err |-> err,
     resolved |-> resolved, secondary |-> secondary]

\* the fights adapted from the bouts of the core API
adaptBouts(bouts) ==
    [i \in 1..Len(bouts) |->
        Fight(bouts[i].WeightClass, bouts[i].Fighter1, "", bouts[i].Fighter2, "", "", 0)]

\* a fetch that passes on the error of the secondary fetch
FetchNextOrOngoingEventAndCardStrict(rootsOK, cal, events, ignores, nowUTC, resp, body, core) ==
    LET sel == findNextOrOngoingEventUTC(cal, ignores, nowUTC)
        r == resolveFullEvent(events, cal[sel.pick], TRUE, TRUE, resp = "2xx")
        ev == IF r.tier = "fetch" THEN body ELSE r.ev
        attempt == Len(listFullCard(ev)) = 0 /\ ev.ID # ""
        got == FetchUFCCardForEvent(ev.ID, core)
    IN IF ~rootsOK THEN FetchResult(NoRootEvent, <<>>, 0, 0, FALSE, TRUE, FALSE, FALSE)
       ELSE IF sel.pick = 0 THEN FetchResult(NoRootEvent, <<>>, 0, 0, FALSE, FALSE, FALSE, FALSE)
       ELSE IF r.err THEN FetchResult(NoRootEvent, <<>>, 0, 0, FALSE, TRUE, FALSE, FALSE)
       ELSE IF attempt /\ got.err
       THEN FetchResult(NoRootEvent, <<>>, 0, 0, FALSE, TRUE, TRUE, TRUE)
       ELSE FetchResult(ev,
                        IF attempt /\ Len(got.bouts) > 0
                        THEN adaptBouts(got.bouts) ELSE listFullCard(ev),
                        sel.st, sel.en, TRUE, FALSE, TRUE, attempt)

\* FetchNextOrOngoingEventAndCard.  rootsOK: the three scoreboard fetches
\* succeed; cal and events are the merged calendar and events; resp and
\* body are the answer to a fetch of the entry's reference, core the answers
\* of the core API.
FetchNextOrOngoingEventAndCard(rootsOK, cal, events, ignores, nowUTC, resp, body, core) ==
    LET sel == findNextOrOngoingEventUTC(cal, ignores, nowUTC)
        r == resolveFullEvent(events, cal[sel.pick], TRUE, TRUE, resp = "2xx")
        ev == IF r.tier = "fetch" THEN body ELSE r.ev
        fights == listFullCard(ev)
        attempt == Len(fights) = 0 /\ ev.ID # ""
        got == FetchUFCCardForEvent(ev.ID, core)
    IN IF ~rootsOK THEN FetchResult(NoRootEvent, <<>>, 0, 0, FALSE, TRUE, FALSE, FALSE)
       ELSE IF sel.pick = 0 THEN FetchResult(NoRootEvent, <<>>, 0, 0, FALSE, FALSE, FALSE, FALSE)
       ELSE IF r.err THEN FetchResult(NoRootEvent, <<>>, 0, 0, FALSE, TRUE, FALSE, FALSE)
       ELSE FetchResult(ev,
                        IF attempt /\ ~got.err /\ Len(got.bouts) > 0
                        THEN adaptBouts(got.bouts) ELSE fights,
                        sel.st, sel.en, TRUE, FALSE, TRUE, attempt)

----------------------------------------------------------------------------
(* sources: the UFC provider *)

NoEvent == [id |-> 0, start |-> EmptyTime]

\* a provider that reports an error when the selector finds nothing
NextEventNoneIsError(ctx, cal, nowUTC, upstream) ==
    LET ignores == IF ctx = 0 THEN <<>> ELSE << <<"Contender", "Series">> >>
        picked == findNextOrOngoingEventUTC(cal, ignores, nowUTC)
    IN IF upstream # "ok" \/ picked.pick = 0 THEN [ev |-> NoEvent, ok |-> FALSE, err |-> TRUE]
       ELSE [ev |-> [id |-> picked.pick, start |-> FormatRFC3339(picked.st)],
             ok |-> TRUE, err |-> FALSE]

\* ufcProvider.NextEvent.  ctx is the value WithUFCIgnoreContender put on
\* the context (-1: no value, 0: false, 1: true); upstream is "ok", or "err"
\* when a scoreboard fetch or the resolution of the picked entry fails.
NextEvent(ctx, cal, nowUTC, upstream) ==
    LET ignores == IF ctx = 0 THEN <<>> ELSE << <<"Contender", "Series">> >>
        sel == findNextOrOngoingEventUTC(cal, ignores, nowUTC)
    IN IF upstream # "ok" THEN [ev |-> NoEvent, ok |-> FALSE, err |-> TRUE]
       ELSE IF sel.pick = 0 THEN [ev |-> NoEvent, ok |-> FALSE, err |-> FALSE]
       ELSE [ev |-> [id |-> sel.pick, start |-> FormatRFC3339(sel.st)],
             ok |-> TRUE, err |-> FALSE]

\* pickNextEvent with the provider context notifyGuildCore builds
pickNextEvent(g, org, nowUTC, upstream) ==
    NextEvent(IF org = "ufc" THEN (IF GetGuildUFCIgnoreContender(g) THEN 1 ELSE 0) ELSE -1,
              calendar, nowUTC, upstream)

----------------------------------------------------------------------------
(* discord: notifyGuildCore and ensureTomorrowScheduledEvent *)

\* the outcome of one notifyGuildCore call: what it returns (posted, reason)
\* and what it did (fetched: the provider call returned without an error;
\* sent: the channel send succeeded; mark: MarkPosted ran with key).  ev,
\* today and key are 0 until the call has computed them.
Outcome(posted, reason, ev, today, key, sent, mark) ==
    [posted |-> posted, reason |-> reason, ev |-> ev, today |-> today,
     key |-> key, sent |-> sent, mark |-> mark,
     fetched |-> ev # 0 \/ reason = "No upcoming event"]

\* the same outcome after a provider error
FetchFailed(out) == [out EXCEPT !.fetched = FALSE]

\* a day gate that lets every call pass
notEventDayNever(force, today, postDay) == FALSE

\* a day gate that holds for forced calls too
notEventDayForced(force, today, postDay) == today # postDay

\* the day gate: not the event day, and not forced
notEventDay(force, today, postDay) == ~force /\ today # postDay

\* a dedup check that never finds the date key
alreadyNever(lp, org, todayKey) == FALSE

\* the dedup check: the ledger already holds the event's date key
already(lp, org, todayKey) == lp[org] # 0 /\ lp[org] = todayKey

\* a send step that records the date key although the send failed
sendAndMarkOptimistic(force, sendOK, ev, today, todayKey) ==
    IF ~sendOK THEN Outcome(FALSE, "Send failed", ev, today, todayKey, FALSE, ~force)
    ELSE Outcome(TRUE, "OK", ev, today, todayKey, TRUE, ~force)

\* a send step that records the date key of a forced send too
sendAndMarkForcedToo(force, sendOK, ev, today, todayKey) ==
    IF ~sendOK THEN Outcome(FALSE, "Send failed", ev, today, todayKey, FALSE, FALSE)
    ELSE Outcome(TRUE, "OK", ev, today, todayKey, TRUE, TRUE)

\* the send and what follows it: a failed send returns "Send failed" and
\* records nothing; after a successful one MarkPosted runs unless forced
sendAndMark(force, sendOK, ev, today, todayKey) ==
    IF ~sendOK THEN Outcome(FALSE, "Send failed", ev, today, todayKey, FALSE, FALSE)
    ELSE Outcome(TRUE, "OK", ev, today, todayKey, TRUE, ~force)

notifyGuildCore(g, force, channelOverride, now, upstream, sendOK) ==
    LET gs == GetGuildSettings(g)
        channelID == IF channelOverride = "" THEN gs.channel ELSE channelOverride
        org == GetGuildOrg(g)
        loc == guildLocation(gs.tz, Cfg, LocalZone(Cfg)).loc
        nx == pickNextEvent(g, org, now, upstream)
        stUTC == parseAPITime(nx.ev.start)
        postDay == DateKey(stUTC.t, loc)
        today == DateKey(now, loc)
        todayKey == DateKey(stUTC.t, loc)
    IN IF channelID = "" THEN Outcome(FALSE, "No channel configured", 0, 0, 0, FALSE, FALSE)
       ELSE IF ~force /\ ~GetGuildNotifyEnabled(g)
       THEN Outcome(FALSE, "Notifications disabled", 0, 0, 0, FALSE, FALSE)
       ELSE IF ~HasGuildOrg(g) THEN Outcome(FALSE, "Organization not set", 0, 0, 0, FALSE, FALSE)
       ELSE IF org \notin mgr THEN Outcome(FALSE, "No provider for org", 0, 0, 0, FALSE, FALSE)
       ELSE IF nx.err
       THEN FetchFailed(Outcome(FALSE, "No upcoming event", 0, today, 0, FALSE, FALSE))
       ELSE IF ~nx.ok THEN Outcome(FALSE, "No upcoming event", 0, today, 0, FALSE, FALSE)
       ELSE IF ~stUTC.ok THEN Outcome(FALSE, "Invalid event time", nx.ev.id, today, 0, FALSE, FALSE)
       ELSE IF notEventDay(force, today, postDay)
       THEN Outcome(FALSE, "Not event day", nx.ev.id, today, 0, FALSE, FALSE)
       ELSE IF ~force /\ already(gs.lastPosted, org, todayKey)
       THEN Outcome(FALSE, "Already posted today", nx.ev.id, today, todayKey, FALSE, FALSE)
       ELSE sendAndMark(force, sendOK, nx.ev.id, today, todayKey)

\* notifyGuild: the production path, no force and no channel override
notifyGuild(g, now, upstream, sendOK) == notifyGuildCore(g, FALSE, "", now, upstream, sendOK)

\* an upsert that writes the date key to the row of every guild
MarkPostedAllGuilds(lp, g, sport, yyyyMmDd) ==
    [h \in Guilds |-> [lp[h] EXCEPT ![sport] = yyyyMmDd]]

\* Store.MarkPosted: upsert of the (guild, sport) row
MarkPosted(lp, g, sport, yyyyMmDd) == [lp EXCEPT ![g][sport] = yyyyMmDd]

\* the outcome of one ensureTomorrowScheduledEvent call: ev and date of the
\* selected event once computed, eligible: today is the day before the
\* event, attempt: GuildScheduledEventCreate was called, created: it succeeded
Reminder(ev, date, eligible, attempt, created) ==
    [ev |-> ev, date |-> date, eligible |-> eligible, attempt |-> attempt,
     created |-> created]

\* a reminder step that does not consult the ledger
createReminderUnchecked(g, org, ev, evDateKey, createOK) ==
    Reminder(ev, evDateKey, TRUE, TRUE, createOK)

\* the tail of ensureTomorrowScheduledEvent on the day before the event:
\* skip when the ledger has the event date, else create
createReminder(g, org, ev, evDateKey, createOK) ==
    IF HasScheduledEvent(g, org, evDateKey) THEN Reminder(ev, evDateKey, TRUE, FALSE, FALSE)
    ELSE Reminder(ev, evDateKey, TRUE, TRUE, createOK)

\* a day-before test that every day passes
isDayBeforeAlways(now, evStart, loc) == TRUE

\* the day-before test
isDayBefore(now, evStart, loc) == DateKey(now, loc) = PrevDateKey(evStart, loc)

ensureTomorrowScheduledEvent(g, now, upstream, createOK) ==
    LET org == GetGuildOrg(g)
        loc == guildLocation(GetGuildSettings(g).tz, Cfg, LocalZone(Cfg)).loc
        nx == pickNextEvent(g, org, now, upstream)
        stUTC == parseAPITime(nx.ev.start)
        evDateKey == DateKey(stUTC.t, loc)
    IN IF ~GetGuildEventsEnabled(g) \/ ~HasGuildOrg(g) THEN Reminder(0, 0, FALSE, FALSE, FALSE)
       ELSE IF org \notin mgr THEN Reminder(0, 0, FALSE, FALSE, FALSE)
       ELSE IF nx.err \/ ~nx.ok THEN Reminder(0, 0, FALSE, FALSE, FALSE)
       ELSE IF ~stUTC.ok THEN Reminder(nx.ev.id, 0, FALSE, FALSE, FALSE)
       ELSE IF ~isDayBefore(now, stUTC.t, loc)
       THEN Reminder(nx.ev.id, evDateKey, FALSE, FALSE, FALSE)
       ELSE createReminder(g, org, nx.ev.id, evDateKey, createOK)

\* Store.MarkScheduledEvent: insert of the (guild, sport, event_date) row
MarkScheduledEvent(sch, g, org, date, id) ==
    sch \cup {[g |-> g, org |-> org, date |-> date, id |-> id]}

\* a ledger write that follows every creation attempt, failed ones too
recordReminderOnAttempt(sch, g, org, rem, id) ==
    IF rem.attempt THEN MarkScheduledEvent(sch, g, org, rem.date, id) ELSE sch

\* the end of ensureTomorrowScheduledEvent: the ledger row is written, with
\* the id GuildScheduledEventCreate returned, only when the creation succeeded
recordReminder(sch, g, org, rem, id) ==
    IF rem.created THEN MarkScheduledEvent(sch, g, org, rem.date, id) ELSE sch

----------------------------------------------------------------------------
(* discord: the card of the event embed.  A bout is [id, Scheduled], id    *)
(* being its position in the event's bout list.                             *)

Bout(id, sched) == [id |-> id, Scheduled |-> sched]

\* parseScheduledUTC: known when the time is not empty and parses
parseScheduledUTC(s) ==
    IF s.kind = "empty" THEN [ok |-> FALSE, t |-> 0]
    ELSE IF ~parseAPITime(s).ok THEN [ok |-> FALSE, t |-> 0]
    ELSE [ok |-> TRUE, t |-> parseAPITime(s).t]

\* a comparison that puts bouts of unknown time last
lessUnknownLast(bs, i, j) ==
    LET ti == parseScheduledUTC(bs[i].Scheduled)
        tj == parseScheduledUTC(bs[j].Scheduled)
    IN IF ti.ok /\ tj.ok THEN ti.t < tj.t
       ELSE IF ~ti.ok /\ tj.ok THEN FALSE
       ELSE IF ti.ok /\ ~tj.ok THEN TRUE
       ELSE i < j

\* the less function sortBouts hands to sort.SliceStable: on the elements
\* now at indices i and j
less(bs, i, j) ==
    LET ti == parseScheduledUTC(bs[i].Scheduled)
        tj == parseScheduledUTC(bs[j].Scheduled)
    IN IF ti.ok /\ tj.ok THEN ti.t < tj.t
       ELSE IF ~ti.ok /\ tj.ok THEN TRUE
       ELSE IF ti.ok /\ ~tj.ok THEN FALSE
       ELSE i < j

\* sort.SliceStable on a slice of at most 20 elements is one insertion
\* sort: element i sinks while it is less than its left neighbour
RECURSIVE sink(_, _)
sink(bs, j) ==
    IF j > 1 /\ less(bs, j, j - 1)
    THEN sink([bs EXCEPT ![j] = bs[j - 1], ![j - 1] = bs[j]], j - 1)
    ELSE bs

RECURSIVE insertionSort(_, _)
insertionSort(bs, i) ==
    IF i > Len(bs) THEN bs ELSE insertionSort(sink(bs, i), i + 1)

\* sortBouts: a sorted copy
sortBouts(bouts) == insertionSort(bouts, 2)

\* reverseBouts
reverseBouts(in) == [i \in 1..Len(in) |-> in[Len(in) + 1 - i]]

\* splitCard: the sorted list cut into prelims (prefix) and main card (suffix)
splitCard(bouts) ==
    LET bs == sortBouts(bouts)
        n == Len(bs)
        cutoff0 == IF n >= 10 THEN n - 6 ELSE IF n >= 6 THEN n - 3 ELSE n
        cutoff == IF cutoff0 < 0 THEN 0 ELSE cutoff0
    IN IF n = 0 THEN [mainCard |-> <<>>, prelims |-> <<>>]
       ELSE [mainCard |-> SubSeq(bs, cutoff + 1, n), prelims |-> SubSeq(bs, 1, cutoff)]

\* a marker test that never finds the marker
isContenderSeriesNever(e) == FALSE

\* isContenderSeries: the name or the short name contains "contender series"
isContenderSeries(e) ==
    \/ Contains(ToLower(e.Name), <<"contender", "series">>)
    \/ Contains(ToLower(e.ShortName), <<"contender", "series">>)

\* the card fields of buildEventEmbed's embed: the bouts listed under "Main
\* Card" and under "Prelims" in display order (empty: no such field), and
\* the lists splitCard returned when it was called
buildEventEmbed(e) ==
    IF isContenderSeries(e)
    THEN [main |-> reverseBouts(sortBouts(e.Bouts)), prelims |-> <<>>,
          split |-> FALSE, mainCard |-> <<>>, prelimCard |-> <<>>]
    ELSE LET sp == splitCard(e.Bouts)
         IN [main |-> reverseBouts(sp.mainCard), prelims |-> reverseBouts(sp.prelims),
             split |-> TRUE, mainCard |-> sp.mainCard, prelimCard |-> sp.prelims]

----------------------------------------------------------------------------
(* The scheduler: StartNotifier, scheduleHourly, runNotifierTick *)

\* the first instant of a behaviour
StartClock == Instant(3, 1, 0, 0)

\* what an upstream call (scoreboard fetch, event resolution) can do
Upstream == {"ok", "err"}

\* the record of one evaluation of a due guild: the notifyGuild call (what
\* it returned, whether it sent, lastPosted before and after) and the
\* ensureTomorrowScheduledEvent call before it.  The record also says how
\* the evaluation relates to the guild's previous one, prev, when no
\* configuration command came between them: afterPosted, the previous call
\* posted and this call selected the same event on the same local date;
\* afterFailed, the same when the send of the previous call failed;
\* afterEligible, both ran on the day before the same event date;
\* afterCreated, the previous one of the two created the reminder.
NoCall == [valid |-> FALSE, posted |-> FALSE, reason |-> "", ev |-> 0, today |-> 0,
           key |-> 0, sent |-> FALSE, fetched |-> FALSE, lpBefore |-> 0, lpAfter |-> 0,
           rem |-> Reminder(0, 0, FALSE, FALSE, FALSE),
           afterPosted |-> FALSE, afterFailed |-> FALSE,
           afterEligible |-> FALSE, afterCreated |-> FALSE]

CallOf(out, rem, lpBefore, lpAfter, prev) ==
    LET sameRem == prev.valid /\ prev.rem.eligible /\ rem.eligible
                   /\ prev.rem.date = rem.date
        sameCall == prev.valid /\ out.ev # 0 /\ prev.ev = out.ev /\ prev.today = out.today
    IN [valid |-> TRUE, posted |-> out.posted, reason |-> out.reason, ev |-> out.ev,
        today |-> out.today, key |-> out.key, sent |-> out.sent, fetched |-> out.fetched,
        lpBefore |-> lpBefore, lpAfter |-> lpAfter, rem |-> rem,
        afterPosted |-> sameCall /\ prev.posted,
        afterFailed |-> sameCall /\ prev.reason = "Send failed",
        afterEligible |-> sameRem,
        afterCreated |-> sameRem /\ prev.rem.created]

\* the record of one /create-announcement call: what notifyGuildCore
\* returned and did, whether the provider returned an event (found), whether
\* the channel accepted the message (sendOK), whether the organization had
\* a provider, and lastPosted before and after
NoForced == [valid |-> FALSE, g |-> "", posted |-> FALSE, reason |-> "", ev |-> 0,
             today |-> 0, key |-> 0, sent |-> FALSE, found |-> FALSE, sendOK |-> FALSE,
             provider |-> FALSE, lpBefore |-> 0, lpAfter |-> 0]

ForcedOf(g, out, nx, sendOK, provider, lpBefore, lpAfter) ==
    [valid |-> TRUE, g |-> g, posted |-> out.posted, reason |-> out.reason, ev |-> out.ev,
     today |-> out.today, key |-> out.key, sent |-> out.sent,
     found |-> ~nx.err /\ nx.ok, sendOK |-> sendOK, provider |-> provider,
     lpBefore |-> lpBefore, lpAfter |-> lpAfter]

\* the body of runNotifierTick's loop for a due guild: the reminder first,
\* then today's message.  Each of the two calls has its own provider call
\* (working or failing); the creation and the send succeed or fail.
RunDue(g) ==
    \E rem \in {ensureTomorrowScheduledEvent(g, clock, up1, createOK) :
                    up1 \in Upstream, createOK \in BOOLEAN},
       out \in {notifyGuild(g, clock, up2, sendOK) :
                    up2 \in Upstream, sendOK \in BOOLEAN} :
    LET org == GetGuildOrg(g)
        zone == guildLocation(GetGuildSettings(g).tz, Cfg, LocalZone(Cfg)).loc
        lp2 == IF out.mark THEN MarkPosted(lastPosted, g, org, out.key) ELSE lastPosted
    IN /\ scheduled' = recordReminder(scheduled, g, org, rem, Len(createdLog) + 1)
       /\ createdLog' = IF rem.created
                        THEN Append(createdLog, [g |-> g, org |-> org, date |-> rem.date,
                                                 ev |-> rem.ev, by |-> "tick"])
                        ELSE createdLog
       /\ lastPosted' = lp2
       /\ sentLog' = IF out.sent
                     THEN Append(sentLog, [g |-> g, org |-> org, ev |-> out.ev, day |-> out.today,
                                           key |-> out.key, forced |-> FALSE, zone |-> zone])
                     ELSE sentLog
       /\ lastCall' = [lastCall EXCEPT ![g] = CallOf(out, rem, lastPosted[g][org], lp2[g][org],
                                                     lastCall[g])]

\* scheduleHourly: the timer set for this hour boundary fires and
\* runNotifierTick reads the guild list
TickStart ==
    /\ armed /\ queue = <<>>
    /\ queue' = GuildIDs
    /\ armed' = FALSE
    /\ UNCHANGED sweepVars
    /\ lastForced' = NoForced
    /\ UNCHANGED <<clock, rows, st, lastPosted, scheduled, mgr, calendar, cmds,
                   sentLog, createdLog, lastCall>>

\* runNotifierTick: one iteration of the loop over the guilds
ProcessGuild ==
    /\ queue # <<>>
    /\ queue' = Tail(queue)
    /\ LET g == Head(queue)
       IN IF shouldRunNow(g, Cfg, clock)
          THEN RunDue(g)
          ELSE UNCHANGED <<lastPosted, scheduled, sentLog, createdLog, lastCall>>
    /\ UNCHANGED sweepVars
    /\ lastForced' = NoForced
    /\ UNCHANGED <<clock, armed, rows, st, mgr, calendar, cmds>>

\* a timer for the next boundary that is set while the tick is still running
AdvanceClockEarly ==
    /\ ~armed
    /\ clock < StartClock + MaxHours * 60
    /\ clock' = clock + 60
    /\ armed' = TRUE
    /\ lastCall' = [g \in Guilds |-> NoCall]
    /\ UNCHANGED sweepVars
    /\ lastForced' = NoForced
    /\ UNCHANGED <<queue, rows, st, lastPosted, scheduled, mgr, calendar, cmds,
                   sentLog, createdLog>>

\* the tick has returned and the next hour boundary arrives
AdvanceClock ==
    /\ ~armed /\ queue = <<>>
    /\ clock < StartClock + MaxHours * 60
    /\ clock' = clock + 60
    /\ armed' = TRUE
    /\ lastCall' = [g \in Guilds |-> NoCall]
    /\ UNCHANGED sweepVars
    /\ lastForced' = NoForced
    /\ UNCHANGED <<queue, rows, st, lastPosted, scheduled, mgr, calendar, cmds,
                   sentLog, createdLog>>

\* the process is restarted within the current hour: a running tick is lost
\* and StartNotifier runs the startup tick
Restart ==
    /\ ~armed
    /\ queue' = GuildIDs
    /\ UNCHANGED sweepVars
    /\ lastForced' = NoForced
    /\ UNCHANGED <<clock, armed, rows, st, lastPosted, scheduled, mgr, calendar, cmds,
                   sentLog, createdLog, lastCall>>

----------------------------------------------------------------------------
(* The slash-command handlers (those whose permission checks pass) *)

\* the option values the handlers are called with
ZoneChoices == {"UTC", "Pacific/Pago_Pago"}
HourChoices == {1}
IgnoreChoices == {FALSE}

\* a handler that configures without asking for the organization
handleNotifyToggleUnchecked(g, state) ==
    /\ cmds > 0
    /\ cmds' = cmds - 1
    /\ rows' = rows \cup {g}
    /\ st' = [st EXCEPT ![g].enabled = IF state = "on" THEN 1 ELSE 0]
    /\ lastCall' = [lastCall EXCEPT ![g] = NoCall]
    /\ UNCHANGED sweepVars
    /\ lastForced' = NoForced
    /\ UNCHANGED <<clock, armed, queue, lastPosted, scheduled, mgr, calendar,
                   sentLog, createdLog>>

\* a configuration command for guild g that sets column values
Configure(g, row) ==
    /\ cmds > 0
    /\ cmds' = cmds - 1
    /\ rows' = rows \cup {g}
    /\ st' = [st EXCEPT ![g] = row]
    /\ lastCall' = [lastCall EXCEPT ![g] = NoCall]
    /\ UNCHANGED sweepVars
    /\ lastForced' = NoForced
    /\ UNCHANGED <<clock, armed, queue, lastPosted, scheduled, mgr, calendar,
                   sentLog, createdLog>>

handleSetChannel(g) == Configure(g, [st[g] EXCEPT !.channel = "c1"])

handleNotifyToggle(g, state) ==
    /\ state = "on" => HasGuildOrg(g)
    /\ Configure(g, [st[g] EXCEPT !.enabled = IF state = "on" THEN 1 ELSE 0])

handleEventsToggle(g, state) ==
    /\ state = "on" => HasGuildOrg(g)
    /\ Configure(g, [st[g] EXCEPT !.events = IF state = "on" THEN 1 ELSE 0])

handleSetOrg(g, org) ==
    /\ org = "ufc"
    /\ Configure(g, [st[g] EXCEPT !.org = org])

handleOrgSettings(g, ignore) ==
    Configure(g, [st[g] EXCEPT !.ufc_ignore = IF ignore THEN 1 ELSE 0])

handleSetTZ(g, tz) ==
    /\ LoadLocation(tz).ok
    /\ Configure(g, [st[g] EXCEPT !.tz = tz])

handleSetRunHour(g, hour) ==
    /\ hour >= 0 /\ hour <= 23
    /\ Configure(g, [st[g] EXCEPT !.run_hour = hour])

\* /create-announcement: the notifier path with force and the target channel
handleCreateAnnouncement(g, upstream, sendOK) ==
    /\ cmds > 0
    /\ HasGuildOrg(g)
    /\ cmds' = cmds - 1
    /\ \E out \in {notifyGuildCore(g, TRUE,
                         IF GetGuildSettings(g).channel # ""
                         THEN GetGuildSettings(g).channel ELSE "c1",
                         clock, upstream, sendOK)} :
       LET org == GetGuildOrg(g)
           zone == guildLocation(GetGuildSettings(g).tz, Cfg, LocalZone(Cfg)).loc
           lp2 == IF out.mark THEN MarkPosted(lastPosted, g, org, out.key) ELSE lastPosted
       IN /\ lastPosted' = lp2
          /\ sentLog' = IF out.sent
                        THEN Append(sentLog, [g |-> g, org |-> org, ev |-> out.ev,
                                              day |-> out.today, key |-> out.key,
                                              forced |-> TRUE, zone |-> zone])
                        ELSE sentLog
          /\ lastForced' = ForcedOf(g, out, pickNextEvent(g, org, clock, upstream), sendOK,
                                    org \in mgr, lastPosted[g][org], lp2[g][org])
    /\ UNCHANGED sweepVars
    /\ UNCHANGED <<clock, armed, queue, rows, st, scheduled, mgr, calendar,
                   createdLog, lastCall>>

\* /create-event: a scheduled event for the next event, whatever the day
handleCreateEvent(g, upstream, createOK) ==
    /\ cmds > 0
    /\ HasGuildOrg(g)
    /\ cmds' = cmds - 1
    /\ \E nx \in {pickNextEvent(g, GetGuildOrg(g), clock, upstream)} :
       LET org == GetGuildOrg(g)
           loc == guildLocation(GetGuildSettings(g).tz, Cfg, LocalZone(Cfg)).loc
           stUTC == parseAPITime(nx.ev.start)
           evDateKey == DateKey(stUTC.t, loc)
           create == /\ org \in mgr /\ ~nx.err /\ nx.ok /\ stUTC.ok
                     /\ ~HasScheduledEvent(g, org, evDateKey) /\ createOK
       IN /\ scheduled' = IF create
                          THEN MarkScheduledEvent(scheduled, g, org, evDateKey, Len(createdLog) + 1)
                          ELSE scheduled
          /\ createdLog' = IF create
                           THEN Append(createdLog, [g |-> g, org |-> org, date |-> evDateKey,
                                                    ev |-> nx.ev.id, by |-> "cmd"])
                           ELSE createdLog
    /\ UNCHANGED sweepVars
    /\ lastForced' = NoForced
    /\ UNCHANGED <<clock, armed, queue, rows, st, lastPosted, mgr, calendar,
                   sentLog, lastCall>>

Command ==
    \E g \in Guilds :
        \/ handleSetChannel(g)
        \/ \E state \in {"on", "off"} : handleNotifyToggle(g, state)
        \/ \E state \in {"on", "off"} : handleEventsToggle(g, state)
        \/ handleSetOrg(g, "ufc")
        \/ \E ignore \in IgnoreChoices : handleOrgSettings(g, ignore)
        \/ \E tz \in ZoneChoices : handleSetTZ(g, tz)
        \/ \E hour \in HourChoices : handleSetRunHour(g, hour)
        \/ \E up \in Upstream, ok \in BOOLEAN : handleCreateAnnouncement(g, up, ok)
        \/ \E up \in Upstream, ok \in BOOLEAN : handleCreateEvent(g, up, ok)

\* a calendar entry of the upstream API
Entry(label, startDate, endDate) ==
    [label |-> label, startDate |-> startDate, endDate |-> endDate]

----------------------------------------------------------------------------
(* shouldRunNow over the hourly ticks of whole local days *)

\* hours one sweep covers
MaxScan == 72

\* the stored time zones (one of them a name that does not load) and run
\* hours swept, and the first tick of a sweep:
\* an ordinary day, and the days before New York's two transitions of 2025
ScanZones == {"", "UTC", "Asia/Tokyo", "Asia/Kolkata", "Mars/Phobos"}
ScanHours == {-1, 1, 2}
\* the configurations swept: RUN_AT 19:00, 19:30, 19:60 (a minute out of
\* range) and a value that is not of the shape HH:MM
BadRunAt == [kind |-> "bad", hh |-> 0, mm |-> 0]
ScanCfgs == {Load("", r, SystemZone) :
                r \in {HHMM(19, 0), HHMM(19, 30), HHMM(19, 60), BadRunAt}}
ScanStarts == {Instant(2, 28, 0, 0), Instant(3, 8, 0, 0), Instant(11, 1, 0, 0)}

NoScan == [on |-> FALSE]

\* the sweep at its first tick t0.  day is the local day of tick t, n the
\* due ticks of that day so far, whole tells that the day was swept from
\* its first tick; closed with closedDay and closedN report the day that
\* ended with the previous tick when that day was whole.
StartScan(tz, runHour, cfg, t0) ==
    LET due == shouldRunNowAt(tz, runHour, cfg, t0)
    IN [on |-> TRUE, tz |-> tz, runHour |-> runHour, cfg |-> cfg, t |-> t0, left |-> MaxScan,
        due |-> due, day |-> LocalDay(t0, guildLocation(tz, cfg, LocalZone(cfg)).loc),
        n |-> IF due THEN 1 ELSE 0, whole |-> FALSE,
        closed |-> FALSE, closedDay |-> 0, closedN |-> 0]

\* scheduleHourly fires at the next hour boundary and runNotifierTick asks
\* shouldRunNow
ScanTick ==
    /\ scan.on /\ scan.left > 0
    /\ LET t2 == scan.t + 60
           due == shouldRunNowAt(scan.tz, scan.runHour, scan.cfg, t2)
           day2 == LocalDay(t2, guildLocation(scan.tz, scan.cfg, LocalZone(scan.cfg)).loc)
           k == IF due THEN 1 ELSE 0
       IN scan' = IF day2 = scan.day
                  THEN [scan EXCEPT !.t = t2, !.left = @ - 1, !.due = due, !.n = @ + k,
                                    !.closed = FALSE]
                  ELSE [scan EXCEPT !.t = t2, !.left = @ - 1, !.due = due, !.day = day2,
                                    !.n = k, !.whole = TRUE, !.closed = scan.whole,
                                    !.closedDay = scan.day, !.closedN = scan.n]
    /\ UNCHANGED <<selCall, resCall, card, fetchCall, provCall, race>>
    /\ UNCHANGED botVars

----------------------------------------------------------------------------
(* findNextOrOngoingEventUTC called hour after hour on one calendar *)

\* hours one series of selector calls covers
MaxSelHours == 6

\* the first instant of a series: 2025-03-01T00:00Z
SelStart == Instant(3, 1, 0, 0)

\* the entries a swept calendar is made of
SelLabels == { <<"Event", "X">>, <<"Contender", "Series">> }
SelStartDates == {IsoTime(3, 1, 2, 0), IsoTime(3, 1, 4, 0), EmptyTime, BadTime}
SelEndDates == {EmptyTime, BadTime, IsoTime(3, 1, 1, 0), IsoTime(3, 1, 2, 0),
                IsoTime(3, 1, 5, 0)}
SelEntries == {Entry(l, sd, ed) : l \in SelLabels, sd \in SelStartDates, ed \in SelEndDates}
SelCalendars == {<<e>> : e \in SelEntries}
                \cup {<<e1, e2>> : e1 \in SelEntries, e2 \in SelEntries}
SelIgnores == { <<>>, << <<"Contender", "Series">> >>, << <<"contender">> >> }

NoSel == [on |-> FALSE]

\* the caller passes the calendar, the ignore terms and the current instant
CallSelector ==
    /\ selCall.on /\ ~selCall.called
    /\ selCall' = [selCall EXCEPT !.called = TRUE,
                          !.res = findNextOrOngoingEventUTC(selCall.cal, selCall.ignores, selCall.now)]
    /\ UNCHANGED <<scan, resCall, card, fetchCall, provCall, race>>
    /\ UNCHANGED botVars

\* an hour passes before the next call
SelAdvance ==
    /\ selCall.on /\ selCall.called
    /\ selCall.now < SelStart + MaxSelHours * 60
    /\ selCall' = [selCall EXCEPT !.called = FALSE, !.now = @ + 60]
    /\ UNCHANGED <<scan, resCall, card, fetchCall, provCall, race>>
    /\ UNCHANGED botVars

----------------------------------------------------------------------------
(* resolveFullEvent called on one scoreboard root and one picked entry *)

ResIDs == {"600", "601"}
ResNames == { <<"Event", "X">>, <<"X">>, <<"Event", "Y">> }
\* record dates: the entry's start, 48 hours before it, 49 hours after it,
\* and an unparseable one
ResDates == {IsoTime(3, 1, 2, 0), IsoTime(2, 27, 2, 0), IsoTime(3, 3, 3, 0), BadTime}
ResShortNames == { <<>>, <<"y">> }
ResEvents == {RootEvent(id, n, sn, d) :
                 id \in ResIDs, n \in ResNames, sn \in ResShortNames, d \in ResDates}
ResRoots == {<<e>> : e \in ResEvents} \cup {<<e1, e2>> : e1 \in ResEvents, e2 \in ResEvents}
ResRefs == {NoRef, EventRef("600"), EventRef("999"), OtherRef}
ResPicks == {RefEntry(l, sd, r) : l \in { <<"Event", "X">>, <<"Event", "Y">> },
                                 sd \in {IsoTime(3, 1, 2, 0), BadTime}, r \in ResRefs}

\* what the GET of the reference meets: a 2xx answer with a decodable body,
\* a transport error, another status, or a body that does not decode
FetchResponses == {"2xx", "transport", "status", "decode"}

NoRes == [on |-> FALSE]

\* FetchNextOrOngoingEventAndCard resolves the picked entry (allowFetch
\* true, the client's HTTP client); a test calls it with fetching disabled
ResolvePick ==
    /\ resCall.on /\ ~resCall.called
    /\ \E resp \in FetchResponses :
          LET r == resolveFullEvent(resCall.events, resCall.pick,
                                    resCall.allowFetch, TRUE, resp = "2xx")
          IN resCall' = [resCall EXCEPT !.called = TRUE, !.res = r,
                            !.resp = IF r.fetched THEN resp ELSE "none"]
    /\ UNCHANGED <<scan, selCall, card, fetchCall, provCall, race>>
    /\ UNCHANGED botVars

----------------------------------------------------------------------------
(* FetchNextOrOngoingEventAndCard called on one scoreboard *)

CompA == Competition("LW", "Ann", "10-1", "Bea", "9-2", "", IsoTime(3, 1, 23, 0))
FetchEvents == { <<>>,
                 <<FullEvent("600", <<"Other">>, BadTime, <<>>)>>,
                 <<FullEvent("600", <<"Other">>, BadTime, <<CompA>>)>>,
                 <<FullEvent("", <<"Event", "X">>, IsoTime(3, 1, 2, 0), <<>>)>> }
FetchCalendars == {<<RefEntry(<<"Event", "X">>, IsoTime(3, 1, 2, 0), r)>> :
                      r \in {NoRef, EventRef("600"), OtherRef}}
FetchBodies == {FullEvent("700", <<"Event", "X">>, EmptyTime, <<>>),
                FullEvent("", <<>>, EmptyTime, <<>>),
                FullEvent("700", <<"Event", "X">>, EmptyTime, <<CompA>>)}
ItemA == CoreItem(TRUE, "Lightweight", <<"Ann", "Bea">>)
ItemB == CoreItem(TRUE, "", <<"Cat">>)
ItemFail == CoreItem(FALSE, "", <<>>)
CoreResponses == {[list |-> l, items |-> <<>>] : l \in {"transport", "status"}}
                 \cup {[list |-> "ok", items |-> it] :
                          it \in {<<>>, <<ItemA>>, <<ItemA, ItemB>>, <<ItemA, ItemFail>>}}

NoFetch == [on |-> FALSE]

\* the provider calls the client; the upstream answers are chosen here
FetchCall ==
    /\ fetchCall.on /\ ~fetchCall.called
    /\ \E rootsOK \in BOOLEAN, resp \in FetchResponses, body \in FetchBodies,
          core \in CoreResponses :
          fetchCall' = [fetchCall EXCEPT !.called = TRUE, !.rootsOK = rootsOK,
                           !.resp = resp, !.body = body, !.core = core,
                           !.out = FetchNextOrOngoingEventAndCard(rootsOK, fetchCall.cal,
                                       fetchCall.events, fetchCall.ignores,
                                       fetchCall.now, resp, body, core)]
    /\ UNCHANGED <<scan, selCall, resCall, card, provCall, race>>
    /\ UNCHANGED botVars

----------------------------------------------------------------------------
(* Successive NextEvent calls on the Provider the Manager registered *)

\* calls one series makes
MaxProvCalls == 3

\* the values WithUFCIgnoreContender leaves on a context: none, false, true
CtxFlags == {-1, 0, 1}

\* calendars whose next entry is a "Contender Series" one, or is not
ProvCalendars ==
    { << Entry(<<"Contender", "Series">>, IsoTime(3, 1, 2, 0), EmptyTime),
         Entry(<<"Event", "X">>, IsoTime(3, 1, 4, 0), EmptyTime) >>,
      << Entry(<<"Event", "X">>, IsoTime(3, 1, 2, 0), EmptyTime),
         Entry(<<"Contender", "Series">>, IsoTime(3, 1, 4, 0), EmptyTime) >>,
      << Entry(<<"Contender", "Series">>, IsoTime(3, 1, 2, 0), EmptyTime) >> }

\* the instance NewDefaultManager registers: it holds the client only
ufcProvider == [c |-> "espn.HTTPClient"]

\* a provider that keeps on the instance the flag of the first call it served
NextEventOnSticky(p, ctx, cal, nowUTC, upstream) ==
    LET kept == IF "flag" \in DOMAIN p THEN p.flag ELSE ctx
    IN [p |-> [c |-> p.c, flag |-> kept], out |-> NextEvent(kept, cal, nowUTC, upstream)]

\* (p *ufcProvider).NextEvent on the instance p: ignores is a local of the
\* call and p is left as it was
NextEventOn(p, ctx, cal, nowUTC, upstream) ==
    [p |-> p, out |-> NextEvent(ctx, cal, nowUTC, upstream)]

NoProv == [on |-> FALSE]

\* a guild's evaluation calls the provider with the context built from that
\* guild's flag; time may have passed since the previous call
ProviderCall ==
    /\ provCall.on /\ provCall.n < MaxProvCalls
    /\ \E ctx \in CtxFlags, up \in Upstream, wait \in {0, 60, 120} :
          LET now == provCall.now + wait
              r == NextEventOn(provCall.p, ctx, provCall.cal, now, up)
          IN provCall' = [provCall EXCEPT !.p = r.p, !.n = @ + 1, !.now = now,
                                          !.prev = provCall.ctx, !.ctx = ctx,
                                          !.up = up, !.out = r.out]
    /\ UNCHANGED <<scan, selCall, resCall, card, fetchCall, race>>
    /\ UNCHANGED botVars

----------------------------------------------------------------------------
(* The tick's ensureTomorrowScheduledEvent and a /create-event handler of the
   same guild, each in its own goroutine, step by step *)

\* rounds of tick and command one behaviour has
MaxRounds == 2

NoRace == [on |-> FALSE]

\* where a path stands: before its HasScheduledEvent check ("check"),
\* before GuildScheduledEventCreate ("create"), before MarkScheduledEvent
\* ("mark"), or returned ("done"); key and ev are the date key and the
\* event it passed the check with
Path(pc, key, ev) == [pc |-> pc, key |-> key, ev |-> ev]

\* ensureTomorrowScheduledEvent down to its ledger check
TickCheck ==
    /\ race.on /\ race.tick.pc = "check"
    /\ \E rem \in {ensureTomorrowScheduledEvent(race.g, clock, up, TRUE) : up \in Upstream} :
          race' = [race EXCEPT !.tick = IF shouldRunNow(race.g, Cfg, clock) /\ rem.attempt
                                         THEN Path("create", rem.date, rem.ev)
                                         ELSE Path("done", 0, 0)]
    /\ UNCHANGED <<scan, selCall, resCall, card, fetchCall, provCall>>
    /\ UNCHANGED botVars

\* handleCreateEvent down to its ledger check
CmdCheck ==
    /\ race.on /\ race.cmd.pc = "check"
    /\ \E nx \in {pickNextEvent(race.g, GetGuildOrg(race.g), clock, up) : up \in Upstream} :
          LET org == GetGuildOrg(race.g)
              loc == guildLocation(GetGuildSettings(race.g).tz, Cfg, LocalZone(Cfg)).loc
              stUTC == parseAPITime(nx.ev.start)
              evDateKey == DateKey(stUTC.t, loc)
              pass == /\ HasGuildOrg(race.g) /\ org \in mgr /\ ~nx.err /\ nx.ok /\ stUTC.ok
                      /\ ~HasScheduledEvent(race.g, org, evDateKey)
          IN race' = [race EXCEPT !.cmd = IF pass THEN Path("create", evDateKey, nx.ev.id)
                                          ELSE Path("done", 0, 0)]
    /\ UNCHANGED <<scan, selCall, resCall, card, fetchCall, provCall>>
    /\ UNCHANGED botVars

\* GuildScheduledEventCreate of the path who ("tick" or "cmd"): it creates
\* the event, or fails and the path returns
Create(who) ==
    /\ race.on /\ race[who].pc = "create"
    /\ \E createOK \in BOOLEAN :
          /\ race' = [race EXCEPT ![who].pc = IF createOK THEN "mark" ELSE "done"]
          /\ createdLog' = IF createOK
                           THEN Append(createdLog, [g |-> race.g, org |-> GetGuildOrg(race.g),
                                                    date |-> race[who].key, ev |-> race[who].ev,
                                                    by |-> who])
                           ELSE createdLog
    /\ UNCHANGED <<scan, selCall, resCall, card, fetchCall, provCall>>
    /\ UNCHANGED <<clock, armed, queue, rows, st, lastPosted, scheduled, mgr, calendar,
                   cmds, sentLog, lastCall, lastForced>>

\* MarkScheduledEvent of the path who; (guild, sport, event_date) is the
\* primary key of the table, so the ledger holds one row for the key
Mark(who) ==
    /\ race.on /\ race[who].pc = "mark"
    /\ race' = [race EXCEPT ![who].pc = "done"]
    /\ scheduled' = IF HasScheduledEvent(race.g, GetGuildOrg(race.g), race[who].key)
                     THEN scheduled
                     ELSE MarkScheduledEvent(scheduled, race.g, GetGuildOrg(race.g),
                                             race[who].key, Len(createdLog))
    /\ UNCHANGED <<scan, selCall, resCall, card, fetchCall, provCall>>
    /\ UNCHANGED <<clock, armed, queue, rows, st, lastPosted, createdLog, mgr, calendar,
                   cmds, sentLog, lastCall, lastForced>>

TickCreate == Create("tick")
TickMark == Mark("tick")
CmdCreate == Create("cmd")
CmdMark == Mark("cmd")

\* both have returned: the next hourly tick comes, and a user issues
\* /create-event again
NextRound ==
    /\ race.on /\ race.tick.pc = "done" /\ race.cmd.pc = "done"
    /\ race.round < MaxRounds
    /\ race' = [race EXCEPT !.round = @ + 1, !.tick = Path("check", 0, 0),
                            !.cmd = Path("check", 0, 0)]
    /\ clock' = clock + 60
    /\ st' = [st EXCEPT ![race.g].run_hour = LocalHour(clock + 60, "UTC")]
    /\ UNCHANGED <<scan, selCall, resCall, card, fetchCall, provCall>>
    /\ UNCHANGED <<armed, queue, rows, lastPosted, scheduled, createdLog, mgr, calendar,
                   cmds, sentLog, lastCall, lastForced>>

----------------------------------------------------------------------------
(* An event's bout list is filled and its embed is built *)

\* bouts of one event, and how many of them carry any of the bout times
MaxBouts == 11
MaxVaried == 4

\* the Scheduled values of a bout: none, unparseable, two instants
CardTimes == {EmptyTime, BadTime, IsoTime(3, 1, 22, 0), IsoTime(3, 1, 23, 0)}

\* the names and short names of the events
CardNames == { [Name |-> <<"Event", "X">>, ShortName |-> <<"X">>],
               [Name |-> <<"Contender", "Series", "X">>, ShortName |-> <<>>],
               [Name |-> <<"Event", "X">>, ShortName |-> <<"CONTENDER", "SERIES">>] }

NoCard == [on |-> FALSE]

\* ufcProvider.NextEvent maps one more fight to a bout of the event
AddBout ==
    /\ card.on /\ ~card.built
    /\ Len(card.e.Bouts) < MaxBouts
    /\ \E sched \in (IF Len(card.e.Bouts) < MaxVaried THEN CardTimes ELSE {EmptyTime}) :
          card' = [card EXCEPT !.e.Bouts = Append(@, Bout(Len(@) + 1, sched))]
    /\ UNCHANGED <<scan, selCall, resCall, fetchCall, provCall, race>>
    /\ UNCHANGED botVars

\* the announcement's embed is built from the event
BuildEmbed ==
    /\ card.on /\ ~card.built
    /\ card' = [card EXCEPT !.built = TRUE, !.emb = buildEventEmbed(card.e)]
    /\ UNCHANGED <<scan, selCall, resCall, fetchCall, provCall, race>>
    /\ UNCHANGED botVars

----------------------------------------------------------------------------
(* Initial states and the specification *)

\* "Event X" starts 2025-03-01T02:00Z and has no end time
EventX == Entry(<<"Event", "X">>, IsoTime(3, 1, 2, 0), EmptyTime)
\* "Event Y" runs 2025-03-02T01:00Z .. 04:00Z
EventY == Entry(<<"Event", "Y">>, IsoTime(3, 2, 1, 0), IsoTime(3, 2, 4, 0))

Calendars == { <<EventX>>, <<EventX, EventY>> }

\* a guild after /set-org and /set-channel: notifications never enabled
RowSetUp == [NullRow EXCEPT !.channel = "c1", !.org = "ufc"]
\* the same after /notify on and /events on
RowDefault == [RowSetUp EXCEPT !.enabled = 1, !.events = 1]
\* the same after /set-tz UTC and /set-run-hour 2
RowUTC2 == [RowDefault EXCEPT !.tz = "UTC", !.run_hour = 2]
\* the same after /set-tz Pacific/Kiritimati and /set-run-hour 14
RowKiritimati14 == [RowDefault EXCEPT !.tz = "Pacific/Kiritimati", !.run_hour = 14]

\* the same after /set-tz UTC and /set-run-hour 1
RowUTC1 == [RowDefault EXCEPT !.tz = "UTC", !.run_hour = 1]

\* the stores a behaviour starts from: the rows of g1 and g2
InitRows == {<<r1, RowUTC1>> : r1 \in {NullRow, RowSetUp, RowDefault, RowUTC2,
                                       RowKiritimati14}}
            \cup {<<RowDefault, NullRow>>}

\* the bot right after the process has started and the first timer is set
InitBot ==
    /\ clock = StartClock
    /\ armed = TRUE
    /\ queue = <<>>
    /\ \E r \in InitRows :
          /\ st = [g \in Guilds |-> IF g = "g1" THEN r[1] ELSE r[2]]
          /\ rows = {g \in Guilds : (IF g = "g1" THEN r[1] ELSE r[2]) # NullRow}
    /\ lastPosted = [g \in Guilds |-> [o \in Orgs |-> 0]]
    /\ scheduled = {}
    /\ mgr \in {{"ufc"}, {}}
    /\ calendar \in Calendars
    /\ mgr = {} => (st["g1"] = RowDefault /\ st["g2"] = NullRow /\ calendar = <<EventX>>)
    /\ cmds = MaxCmds
    /\ sentLog = <<>>
    /\ createdLog = <<>>
    /\ lastCall = [g \in Guilds |-> NoCall]
    /\ lastForced = NoForced

Init == /\ InitBot /\ scan = NoScan /\ selCall = NoSel /\ resCall = NoRes /\ card = NoCard
        /\ fetchCall = NoFetch /\ provCall = NoProv /\ race = NoRace

Next == TickStart \/ ProcessGuild \/ AdvanceClock \/ Restart \/ Command

Spec == Init /\ [][Next]_vars

\* a bot with an empty store, which the function sweeps leave alone
InitIdle ==
    /\ clock = StartClock
    /\ armed = TRUE
    /\ queue = <<>>
    /\ st = [g \in Guilds |-> NullRow]
    /\ rows = {}
    /\ lastPosted = [g \in Guilds |-> [o \in Orgs |-> 0]]
    /\ scheduled = {}
    /\ mgr = {"ufc"}
    /\ calendar = <<EventX>>
    /\ cmds = 0
    /\ sentLog = <<>>
    /\ createdLog = <<>>
    /\ lastCall = [g \in Guilds |-> NoCall]
    /\ lastForced = NoForced

\* a freshly installed bot: an empty store, and the commands that set it up
MaxSetupCmds == 4

InitCmd ==
    /\ clock = StartClock
    /\ armed = TRUE
    /\ queue = <<>>
    /\ st = [g \in Guilds |-> NullRow]
    /\ rows = {}
    /\ lastPosted = [g \in Guilds |-> [o \in Orgs |-> 0]]
    /\ scheduled = {}
    /\ mgr = {"ufc"}
    /\ calendar = <<EventX>>
    /\ cmds = MaxSetupCmds
    /\ sentLog = <<>>
    /\ createdLog = <<>>
    /\ lastCall = [g \in Guilds |-> NoCall]
    /\ lastForced = NoForced
    /\ scan = NoScan /\ selCall = NoSel /\ resCall = NoRes /\ card = NoCard
    /\ fetchCall = NoFetch /\ provCall = NoProv /\ race = NoRace

NextCmd == Command

SpecCmd == InitCmd /\ [][NextCmd]_vars

InitDue ==
    /\ InitIdle
    /\ fetchCall = NoFetch /\ provCall = NoProv /\ race = NoRace
    /\ \E tz \in ScanZones, h \in ScanHours, cfg \in ScanCfgs, t0 \in ScanStarts :
          scan = StartScan(tz, h, cfg, t0)
    /\ selCall = NoSel
    /\ resCall = NoRes
    /\ card = NoCard

NextDue == ScanTick

SpecDue == InitDue /\ [][NextDue]_vars

InitSel ==
    /\ InitIdle
    /\ fetchCall = NoFetch /\ provCall = NoProv /\ race = NoRace
    /\ scan = NoScan
    /\ resCall = NoRes
    /\ card = NoCard
    /\ \E cal \in SelCalendars, ig \in SelIgnores :
          selCall = [on |-> TRUE, cal |-> cal, ignores |-> ig, now |-> SelStart,
                 called |-> FALSE,
                 res |-> [pick |-> 0, st |-> 0, en |-> 0, tag |-> "none"]]

NextSel == CallSelector \/ SelAdvance

SpecSel == InitSel /\ [][NextSel]_vars

InitRes ==
    /\ InitIdle
    /\ fetchCall = NoFetch /\ provCall = NoProv /\ race = NoRace
    /\ scan = NoScan
    /\ selCall = NoSel
    /\ card = NoCard
    /\ \E events \in ResRoots, pick \in ResPicks, allowFetch \in BOOLEAN :
          resCall = [on |-> TRUE, events |-> events, pick |-> pick,
                     allowFetch |-> allowFetch, called |-> FALSE, resp |-> "none",
                     res |-> [ev |-> NoRootEvent, idx |-> 0, err |-> FALSE, tier |-> "none",
                              fuzzy |-> FALSE, fetched |-> FALSE]]

NextRes == ResolvePick

SpecRes == InitRes /\ [][NextRes]_vars

InitCard ==
    /\ InitIdle
    /\ fetchCall = NoFetch /\ provCall = NoProv /\ race = NoRace
    /\ scan = NoScan
    /\ selCall = NoSel
    /\ resCall = NoRes
    /\ \E nm \in CardNames :
          card = [on |-> TRUE, built |-> FALSE,
                  e |-> [Name |-> nm.Name, ShortName |-> nm.ShortName, Bouts |-> <<>>],
                  emb |-> [main |-> <<>>, prelims |-> <<>>, split |-> FALSE,
                           mainCard |-> <<>>, prelimCard |-> <<>>]]

NextCard == AddBout \/ BuildEmbed

SpecCard == InitCard /\ [][NextCard]_vars

InitFetch ==
    /\ InitIdle
    /\ scan = NoScan
    /\ selCall = NoSel
    /\ resCall = NoRes
    /\ card = NoCard
    /\ provCall = NoProv /\ race = NoRace
    /\ \E cal \in FetchCalendars, events \in FetchEvents,
          now \in {SelStart, SelStart + 180} :
          fetchCall = [on |-> TRUE, called |-> FALSE, cal |-> cal, events |-> events,
                       ignores |-> << <<"Contender", "Series">> >>, now |-> now,
                       rootsOK |-> TRUE, resp |-> "2xx",
                       body |-> FullEvent("", <<>>, EmptyTime, <<>>),
                       core |-> [list |-> "ok", items |-> <<>>],
                       out |-> FetchResult(NoRootEvent, <<>>, 0, 0, FALSE, FALSE, FALSE, FALSE)]

NextFetch == FetchCall

SpecFetch == InitFetch /\ [][NextFetch]_vars

InitProv ==
    /\ InitIdle
    /\ scan = NoScan /\ selCall = NoSel /\ resCall = NoRes /\ card = NoCard
    /\ fetchCall = NoFetch /\ race = NoRace
    /\ \E cal \in ProvCalendars :
          provCall = [on |-> TRUE, p |-> ufcProvider, cal |-> cal, now |-> SelStart,
                      n |-> 0, prev |-> -1, ctx |-> -1, up |-> "ok",
                      out |-> [ev |-> NoEvent, ok |-> FALSE, err |-> FALSE]]

NextProv == ProviderCall

SpecProv == InitProv /\ [][NextProv]_vars

\* guild g1 in zone UTC with reminders on or off, due at the first hour of
\* the behaviour: 2025-03-01T00:00Z, or 03:00Z, the day before "Event Y"
InitRace ==
    /\ \E t0 \in {StartClock, StartClock + 180}, ev \in {0, 1} :
          /\ clock = t0
          /\ st = [g \in Guilds |->
                      IF g = "g1"
                      THEN [NullRow EXCEPT !.org = "ufc", !.tz = "UTC", !.events = ev,
                                           !.run_hour = LocalHour(t0, "UTC")]
                      ELSE NullRow]
    /\ armed = FALSE
    /\ queue = <<>>
    /\ rows = {"g1"}
    /\ lastPosted = [g \in Guilds |-> [o \in Orgs |-> 0]]
    /\ scheduled = {}
    /\ mgr = {"ufc"}
    /\ calendar \in Calendars
    /\ cmds = 0
    /\ sentLog = <<>>
    /\ createdLog = <<>>
    /\ lastCall = [g \in Guilds |-> NoCall]
    /\ lastForced = NoForced
    /\ scan = NoScan /\ selCall = NoSel /\ resCall = NoRes /\ card = NoCard
    /\ fetchCall = NoFetch /\ provCall = NoProv
    /\ race = [on |-> TRUE, g |-> "g1", round |-> 1, tick |-> Path("check", 0, 0),
               cmd |-> Path("check", 0, 0)]

NextRace == TickCheck \/ TickCreate \/ TickMark \/ CmdCheck \/ CmdCreate \/ CmdMark
               \/ NextRound

SpecRace == InitRace /\ [][NextRace]_vars

\* "Event X" with an end time: 2025-03-01T02:00Z .. 05:00Z
EventXEnd == Entry(<<"Event", "X">>, IsoTime(3, 1, 2, 0), IsoTime(3, 1, 5, 0))

LiveCalendars == { <<EventX>>, <<EventXEnd>>, <<EventX, EventY>>, <<EventY>> }

\* an eligible guild g1 (channel, notifications on, org ufc with its
\* provider) in zone UTC or UTC+9, due at one of the hours 0..3 UTC of
\* 2025-03-01
LiveRows == {[NullRow EXCEPT !.org = "ufc", !.channel = "c1", !.enabled = 1, !.tz = tz,
                             !.run_hour = LocalHour(StartClock + 60 * h, tz)] :
                tz \in {"UTC", "Asia/Tokyo"}, h \in 0..MaxHours}

InitLive ==
    /\ clock = StartClock
    /\ armed = TRUE
    /\ queue = <<>>
    /\ \E r \in LiveRows : st = [g \in Guilds |-> IF g = "g1" THEN r ELSE NullRow]
    /\ rows = {"g1"}
    /\ lastPosted = [g \in Guilds |-> [o \in Orgs |-> 0]]
    /\ scheduled = {}
    /\ mgr = {"ufc"}
    /\ calendar \in LiveCalendars
    /\ cmds = 0
    /\ sentLog = <<>>
    /\ createdLog = <<>>
    /\ lastCall = [g \in Guilds |-> NoCall]
    /\ lastForced = NoForced
    /\ scan = NoScan /\ selCall = NoSel /\ resCall = NoRes /\ card = NoCard
    /\ fetchCall = NoFetch /\ provCall = NoProv /\ race = NoRace

NextLive == TickStart \/ ProcessGuild \/ AdvanceClock

\* the step of runNotifierTick's loop, as seen on the queue
ProcessStep == queue # <<>> /\ queue' = Tail(queue)

\* scheduleHourly's loop sets its timer again after every tick and the
\* timer fires; runNotifierTick's loop goes on to the next guild until it
\* has evaluated them all
SpecLive == /\ InitLive /\ [][NextLive]_vars
            /\ WF_vars(TickStart) /\ WF_queue(ProcessStep) /\ WF_vars(AdvanceClock)

\* the rows of a guild in zone UTC with an organization: run hour 1 or 3,
\* reminders on or off, with or without a channel, notifications never
\* set, off or on
RemRows == {[NullRow EXCEPT !.org = "ufc", !.tz = "UTC", !.run_hour = h, !.events = ev,
                            !.channel = ch, !.enabled = en] :
               h \in {1, 3}, ev \in {0, 1}, ch \in {"", "c1"}, en \in {-1, 0, 1}}

\* the bot started on a store that holds one such guild, whose last_posted
\* row is absent or holds the date of Event Y
InitRem ==
    /\ clock = StartClock
    /\ armed = TRUE
    /\ queue = <<>>
    /\ \E r \in RemRows : st = [g \in Guilds |-> IF g = "g1" THEN r ELSE NullRow]
    /\ rows = {"g1"}
    /\ \E lp \in {0, 20250302} :
          lastPosted = [g \in Guilds |-> [o \in Orgs |-> IF g = "g1" THEN lp ELSE 0]]
    /\ scheduled = {}
    /\ mgr \in {{"ufc"}, {}}
    /\ calendar \in Calendars
    /\ cmds = 0
    /\ sentLog = <<>>
    /\ createdLog = <<>>
    /\ lastCall = [g \in Guilds |-> NoCall]
    /\ lastForced = NoForced
    /\ scan = NoScan /\ selCall = NoSel /\ resCall = NoRes /\ card = NoCard
    /\ fetchCall = NoFetch /\ provCall = NoProv /\ race = NoRace

NextRem == TickStart \/ ProcessGuild \/ AdvanceClock \/ Restart

SpecRem == InitRem /\ [][NextRem]_vars

----------------------------------------------------------------------------
(* Properties *)

\* the sends of the scheduler (not forced) to guild g for org o, in order
TickSends(g, o) ==
    SelectSeq(sentLog, LAMBDA e : e.g = g /\ e.org = o /\ ~e.forced)

\* C1: over any sequence of non-forced scheduler ticks, with restarts and
\* configuration changes between them, an event is posted to a guild for an
\* org at most once, and at most one post is made per guild and org per
\* local calendar date.
C1_AtMostOnce ==
    \A g \in Guilds, o \in Orgs :
        LET sends == TickSends(g, o)
        IN \A i, j \in 1..Len(sends) :
              i < j => sends[i].ev # sends[j].ev /\ sends[i].day # sends[j].day

\* C2: when notifyGuild runs twice in succession for a guild with the same
\* selected event and the same local date, and the first call posted, the
\* second call sends nothing, returns not posted with the reason "Already
\* posted today", and leaves lastPosted unchanged.
C2_Idempotent ==
    \A g \in Guilds :
        lastCall[g].afterPosted =>
            /\ ~lastCall[g].sent
            /\ ~lastCall[g].posted
            /\ lastCall[g].reason = "Already posted today"
            /\ lastCall[g].lpAfter = lastCall[g].lpBefore

\* a second call right after a posting call, for the same event and date
C2_Witness == \E g \in Guilds : lastCall[g].afterPosted /\ lastCall[g].lpBefore # 0

\* C3: with the single entry "Event X" (start 2025-03-01T02:00Z, no end), a
\* guild in zone UTC with run hour 2 is not due at 2025-02-28T10:00Z; at the
\* tick of 2025-03-01T02:00Z it is due, Event X is selected and exactly one
\* post is made (the provider and the send working); by 03:00Z there is
\* still exactly that one post.
C3_Scenario ==
    (/\ calendar = <<EventX>>
     /\ st["g1"] = RowUTC2
     /\ "ufc" \in mgr
     /\ lastCall["g1"].valid
     /\ lastCall["g1"].fetched
     /\ lastCall["g1"].reason # "Send failed"
     /\ clock = Instant(3, 1, 2, 0))
    => /\ ~shouldRunNowAt("UTC", 2, Cfg, Instant(2, 28, 10, 0))
       /\ shouldRunNowAt("UTC", 2, Cfg, Instant(3, 1, 2, 0))
       /\ lastCall["g1"].ev = 1
       /\ Len(TickSends("g1", "ufc")) = 1
       /\ ~shouldRunNowAt("UTC", 2, Cfg, Instant(3, 1, 3, 0))

\* C4: two consecutive day-before-eligible ticks for the same guild, org and
\* event date create at most one reminder, the second one finding the
\* ledger entry and creating nothing; no two reminders are ever created for
\* one guild, org and event date.
C4_ReminderDedup ==
    /\ \A g \in Guilds :
          (lastCall[g].afterEligible /\ lastCall[g].afterCreated) =>
              ~lastCall[g].rem.attempt /\ ~lastCall[g].rem.created
    /\ \A i, j \in 1..Len(createdLog) :
          i < j => ~(/\ createdLog[i].g = createdLog[j].g
                     /\ createdLog[i].org = createdLog[j].org
                     /\ createdLog[i].date = createdLog[j].date)

\* a day-before-eligible tick right after the one that created the reminder
C4_Witness ==
    \E g \in Guilds :
        /\ lastCall[g].afterEligible /\ lastCall[g].afterCreated
        /\ \E i \in 1..Len(createdLog) : createdLog[i].g = g /\ createdLog[i].by = "tick"

\* C5: lastPosted[guild][org] = D only if a channel send to that guild for
\* an event whose local date is D has succeeded; a failed send leaves
\* lastPosted unchanged, so that the next call for the same event and date
\* posts when its send succeeds.
C5_NeverOptimistic ==
    /\ \A g \in Guilds, o \in Orgs :
          lastPosted[g][o] # 0 =>
              \E i \in 1..Len(sentLog) :
                  /\ sentLog[i].g = g /\ sentLog[i].org = o
                  /\ sentLog[i].key = lastPosted[g][o]
    /\ \A g \in Guilds :
          lastCall[g].reason = "Send failed" =>
              ~lastCall[g].sent /\ lastCall[g].lpAfter = lastCall[g].lpBefore
    /\ \A g \in Guilds :
          (lastCall[g].afterFailed /\ lastCall[g].reason # "Send failed") =>
              lastCall[g].posted /\ lastCall[g].sent

\* a send failed with the ledger left empty, and the next call has posted
\* and recorded the event's date
C5_Witness ==
    \E g \in Guilds :
        /\ lastCall[g].afterFailed /\ lastCall[g].posted
        /\ lastCall[g].lpBefore = 0
        /\ lastPosted[g]["ufc"] = lastCall[g].key

\* C6: lastPosted[org] of a guild never goes from a recorded date to an
\* earlier one, whatever ticks and configuration commands happen.
C6_Monotonic ==
    [][\A g \in Guilds, o \in Orgs :
          lastPosted[g][o] # 0 => lastPosted'[g][o] >= lastPosted[g][o]]_vars

\* the guild cannot be posted to: no channel, notifications not enabled, no
\* explicitly set organization, or no provider for the organization
Ineligible(g) ==
    \/ st[g].channel = ""
    \/ st[g].enabled # 1
    \/ st[g].org = ""
    \/ GetGuildOrg(g) \notin mgr

\* C7: a non-forced notifyGuild call for a guild that has no channel, or
\* notifications not enabled, or no explicitly set organization, or no
\* provider for it, sends nothing and leaves lastPosted unchanged.
C7_Eligibility ==
    \A g \in Guilds :
        (lastCall[g].valid /\ Ineligible(g)) =>
            /\ ~lastCall[g].sent
            /\ ~lastCall[g].posted
            /\ lastCall[g].lpAfter = lastCall[g].lpBefore

\* a due guild with a channel and an organization whose notifications were
\* never enabled has been evaluated
C7_Witness ==
    \E g \in Guilds :
        /\ lastCall[g].valid
        /\ st[g].channel # "" /\ st[g].org # "" /\ st[g].enabled = -1
        /\ lastCall[g].reason = "Notifications disabled"

\* C8: every whole local calendar day of a guild, days with a daylight
\* saving transition included, has exactly one hourly tick at which
\* shouldRunNow is true.
C8_OneDueTickPerDay ==
    (scan.on /\ scan.closed) => scan.closedN = 1

\* C9: for the same target hour, a guild 9 hours ahead of UTC and a guild
\* with no zone override are never due at the same tick, and each is due
\* exactly when the instant, in its own zone (the override, or the global
\* default zone), has the target hour.
C9_ZoneDueness ==
    scan.on =>
        LET h == targetHour(scan.runHour, scan.cfg)
            dueAhead == shouldRunNowAt("Asia/Tokyo", scan.runHour, scan.cfg, scan.t)
            dueDefault == shouldRunNowAt("", scan.runHour, scan.cfg, scan.t)
        IN /\ dueAhead <=> (((scan.t + 9 * 60) \div 60) % 24 = h)
           /\ dueDefault <=> (LocalHour(scan.t, "America/New_York") = h)
           /\ ~(dueAhead /\ dueDefault)
           /\ scan.tz = "Asia/Tokyo" => (scan.due <=> dueAhead)
           /\ scan.tz = "" => (scan.due <=> dueDefault)

\* the guild 9 hours ahead is due at this tick
C9_Witness == scan.on /\ scan.tz = "Asia/Tokyo" /\ scan.due /\ scan.left < MaxScan

\* C10: the single entry of a calendar is returned tagged ongoing if and
\* only if it has an end time and start <= now < end; an entry with no or an
\* unparseable end time is never tagged ongoing.
C10_OngoingIff ==
    (/\ selCall.on /\ selCall.called
     /\ Len(selCall.cal) = 1
     /\ parseAPITime(selCall.cal[1].startDate).ok
     /\ ~containsAnyIgnore(selCall.cal[1].label, selCall.ignores))
    => LET e == selCall.cal[1]
           start == parseAPITime(e.startDate).t
           end == parseAPITime(e.endDate)
       IN /\ (selCall.res.tag = "ongoing" /\ selCall.res.pick = 1)
                <=> (end.ok /\ start <= selCall.now /\ selCall.now < end.t)
          /\ ~end.ok => selCall.res.tag # "ongoing"

\* the entries of a calendar the selector considers: label not ignored and
\* a start time that parses
SelConsidered(cal, ignores) ==
    {i \in 1..Len(cal) : /\ ~containsAnyIgnore(cal[i].label, ignores)
                         /\ parseISOUTC(cal[i].startDate).ok}

\* those of them that are future (start > now), and those the selector
\* takes as ongoing
SelFuture(cal, ignores, now) ==
    {i \in SelConsidered(cal, ignores) : parseISOUTC(cal[i].startDate).t > now}
SelOngoing(cal, ignores, now) ==
    {i \in SelConsidered(cal, ignores) :
        isOngoing(parseISOUTC(cal[i].startDate).t, entryEnd(cal[i]), now)}

\* the calendar in the order given by the permutation p of its indices
Permuted(cal, p) == [i \in 1..Len(cal) |-> cal[p[i]]]

\* C11: for a calendar with no ongoing entry and two or more future entries
\* (start > now) the selector returns a future entry whose start is the
\* minimal one; when the starts are distinct, every permutation of the
\* calendar yields the same entry.
C11_MinimalStart ==
    (/\ selCall.on /\ selCall.called
     /\ SelOngoing(selCall.cal, selCall.ignores, selCall.now) = {}
     /\ Cardinality(SelFuture(selCall.cal, selCall.ignores, selCall.now)) >= 2)
    => LET cal == selCall.cal
           fut == SelFuture(cal, selCall.ignores, selCall.now)
           startOf(i) == parseISOUTC(cal[i].startDate).t
           distinct == \A i, j \in fut : i # j => startOf(i) # startOf(j)
       IN /\ selCall.res.tag = "future"
          /\ selCall.res.pick \in fut
          /\ selCall.res.st = startOf(selCall.res.pick)
          /\ \A i \in fut : selCall.res.st <= startOf(i)
          /\ distinct =>
                \A p \in Permutations(1..Len(cal)) :
                    LET cal2 == Permuted(cal, p)
                        res2 == findNextOrOngoingEventUTC(cal2, selCall.ignores, selCall.now)
                    IN res2.pick # 0 /\ cal2[res2.pick] = cal[selCall.res.pick]
                       /\ res2.st = selCall.res.st

\* two future entries with distinct starts, the later one first in the
\* calendar, and the selector has returned the second
C11_Witness ==
    /\ selCall.on /\ selCall.called /\ Len(selCall.cal) = 2
    /\ SelFuture(selCall.cal, selCall.ignores, selCall.now) = {1, 2}
    /\ parseISOUTC(selCall.cal[1].startDate).t > parseISOUTC(selCall.cal[2].startDate).t
    /\ selCall.res.pick = 2 /\ selCall.res.tag = "future"

\* C12: when the picked entry's event reference encodes an id and a record
\* with that id is in the fetched set, resolveFullEvent returns exactly
\* that record (no error), and neither the fuzzy name/time tier nor the
\* network fetch is executed.
C12_IdTier ==
    (/\ resCall.on /\ resCall.called
     /\ resCall.pick.ref.kind = "events"
     /\ \E i \in 1..Len(resCall.events) : resCall.events[i].ID = resCall.pick.ref.id)
    => /\ ~resCall.res.err
       /\ resCall.res.tier = "id"
       /\ resCall.res.idx \in 1..Len(resCall.events)
       /\ resCall.res.ev = resCall.events[resCall.res.idx]
       /\ resCall.res.ev.ID = resCall.pick.ref.id
       /\ ~resCall.res.fuzzy
       /\ ~resCall.res.fetched

\* the second record has the referenced id while the first one, with
\* another id, matches the entry by name and time; the second is returned
C12_Witness ==
    /\ resCall.on /\ resCall.called /\ Len(resCall.events) = 2
    /\ resCall.pick.ref.kind = "events"
    /\ resCall.events[2].ID = resCall.pick.ref.id
    /\ resCall.events[1].ID # resCall.pick.ref.id
    /\ fuzzyMatch(resCall.events[1], resCall.pick)
    /\ resCall.res.idx = 2

\* the scheduled time of a bout is known: present and parseable
KnownTime(b) == b.Scheduled.kind = "iso"

\* the instant of a known scheduled time
TimeOf(b) == Instant(b.Scheduled.mo, b.Scheduled.d, b.Scheduled.h, b.Scheduled.mi)

\* the event carries the no-prelims marker in its name or its short name
HasMarker(e) ==
    \/ e.Name = <<"Contender", "Series", "X">>
    \/ e.ShortName = <<"CONTENDER", "SERIES">>

\* C13: for a bout list of length n of an event without the no-prelims
\* marker, splitCard yields |main| = 6 and |prelims| = n - 6 when n >= 10,
\* |main| = 3 and |prelims| = n - 3 when 6 <= n < 10, |main| = n and
\* |prelims| = 0 when n < 6; prelims followed by main is the time-sorted
\* list, so the two partition it with |main| + |prelims| = n.
C13_SplitSizes ==
    (card.on /\ card.built /\ ~HasMarker(card.e))
    => LET n == Len(card.e.Bouts)
           m == card.emb.mainCard
           pr == card.emb.prelimCard
       IN /\ card.emb.split
          /\ n >= 10 => (Len(m) = 6 /\ Len(pr) = n - 6)
          /\ (6 <= n /\ n < 10) => (Len(m) = 3 /\ Len(pr) = n - 3)
          /\ n < 6 => (Len(m) = n /\ Len(pr) = 0)
          /\ Len(m) + Len(pr) = n
          /\ pr \o m = sortBouts(card.e.Bouts)
          /\ {m[i].id : i \in 1..Len(m)} \cup {pr[i].id : i \in 1..Len(pr)} = 1..n

\* C14: for an event whose name or short name contains the no-prelims
\* marker "contender series" (any letter case), every bout is listed under
\* Main Card and there is no Prelims section, for every bout count.
C14_NoPrelims ==
    (card.on /\ card.built /\ HasMarker(card.e))
    => /\ card.emb.prelims = <<>>
       /\ Len(card.emb.main) = Len(card.e.Bouts)
       /\ {card.emb.main[i].id : i \in 1..Len(card.emb.main)} = 1..Len(card.e.Bouts)

\* an event with the marker in upper case in its short name and ten bouts
\* has been built with all ten under Main Card
C14_Witness ==
    /\ card.on /\ card.built
    /\ card.e.ShortName = <<"CONTENDER", "SERIES">>
    /\ Len(card.e.Bouts) = 10
    /\ Len(card.emb.main) = 10 /\ card.emb.prelims = <<>>

\* C15: sortBouts orders the bouts by ascending scheduled time, every bout
\* of unknown (empty or unparseable) time before every bout of known time,
\* keeping the input order among unknown-time bouts and among equal-time
\* bouts; the displayed main-card and prelim lists are each the exact
\* reverse of their slice of that sorted order.
C15_Ordering ==
    (card.on /\ card.built)
    => LET b == card.e.Bouts
           n == Len(b)
           sorted == sortBouts(b)
           m == card.emb.main
           pr == card.emb.prelims
       IN /\ Len(sorted) = n
          /\ \A i \in 1..n : sorted[i] = b[sorted[i].id]
          /\ {sorted[i].id : i \in 1..n} = 1..n
          /\ \A i, j \in 1..n :
                i < j =>
                   /\ ~(KnownTime(sorted[i]) /\ ~KnownTime(sorted[j]))
                   /\ (KnownTime(sorted[i]) /\ KnownTime(sorted[j]))
                         => TimeOf(sorted[i]) <= TimeOf(sorted[j])
                   /\ (~KnownTime(sorted[i]) /\ ~KnownTime(sorted[j]))
                         => sorted[i].id < sorted[j].id
                   /\ (KnownTime(sorted[i]) /\ KnownTime(sorted[j])
                        /\ TimeOf(sorted[i]) = TimeOf(sorted[j]))
                         => sorted[i].id < sorted[j].id
          /\ Len(pr) + Len(m) = n
          /\ \A k \in 1..Len(pr) : pr[k] = sorted[Len(pr) + 1 - k]
          /\ \A k \in 1..Len(m) : m[k] = sorted[n + 1 - k]

\* the bout list has the later time first, then the earlier one, then a
\* bout of the later time again and one of unparseable time, followed by
\* bouts without a time; the embed shows a main card and prelims
C15_Witness ==
    /\ card.on /\ card.built
    /\ Len(card.e.Bouts) = 7
    /\ card.e.Bouts[1].Scheduled = IsoTime(3, 1, 23, 0)
    /\ card.e.Bouts[2].Scheduled = IsoTime(3, 1, 22, 0)
    /\ card.e.Bouts[3].Scheduled = IsoTime(3, 1, 23, 0)
    /\ card.e.Bouts[4].Scheduled = BadTime
    /\ Len(card.emb.main) = 3 /\ Len(card.emb.prelims) = 4
    /\ card.emb.main[1].id = 3 /\ card.emb.main[2].id = 1 /\ card.emb.main[3].id = 2

\* the reminder-ledger rows of guild g
LedgerOf(sch, g) == {r \in sch : r.g = g}

\* the evaluation of a due guild ended without a post: provider error, no
\* event, unparseable event time, or a failed send
FailedOutcome(call) ==
    call.valid /\ ~call.posted
    /\ call.reason \in {"No upcoming event", "Invalid event time", "Send failed"}

\* C16: within a tick every guild of the list read from GuildIDs is
\* evaluated in turn: the evaluation of the guild at the head of the list,
\* whatever its outcome (provider error, no event, unparseable event time,
\* failed send or failed creation), leaves the remaining guilds on the list
\* and changes no other guild's lastPosted or reminder-ledger entries.
C16_Isolation ==
    [][\A g \in Guilds :
          (lastCall'[g].valid /\ lastCall'[g] # lastCall[g])
          => /\ queue # <<>> /\ Head(queue) = g
             /\ queue' = Tail(queue)
             /\ \A h \in Guilds \ {g} :
                   /\ lastPosted'[h] = lastPosted[h]
                   /\ LedgerOf(scheduled', h) = LedgerOf(scheduled, h)
                   /\ lastCall'[h] = lastCall[h]]_vars

\* a tick has run to its end over the list g1, g2: the evaluation of g1
\* failed (provider error, no event or failed send, the reminder not
\* created) and g2 after it was evaluated and posted
C16_Witness ==
    /\ queue = <<>> /\ ~armed
    /\ GuildIDs = <<"g1", "g2">>
    /\ FailedOutcome(lastCall["g1"]) /\ ~lastCall["g1"].rem.created
    /\ lastCall["g2"].valid /\ lastCall["g2"].posted
    /\ lastPosted["g2"]["ufc"] # 0 /\ lastPosted["g1"]["ufc"] = 0

IgnoresOf(g) == IF GetGuildUFCIgnoreContender(g) THEN << <<"Contender", "Series">> >> ELSE <<>>

\* the calendar has no entry that is ongoing or future for guild g now
NoneFound(g) ==
    /\ SelOngoing(calendar, IgnoresOf(g), clock) = {}
    /\ SelFuture(calendar, IgnoresOf(g), clock) = {}

\* C18: when the calendar has no entry that is ongoing or future after
\* filtering, the provider's NextEvent returns no event, not found and no
\* error, and the scheduler's evaluation of the guild ends with "No
\* upcoming event": nothing is sent, and neither lastPosted nor the
\* reminder ledger changes.
C18_NoneFound ==
    \A g \in Guilds :
        (lastCall[g].valid /\ ~Ineligible(g) /\ NoneFound(g))
        => /\ pickNextEvent(g, GetGuildOrg(g), clock, "ok")
                 = [ev |-> NoEvent, ok |-> FALSE, err |-> FALSE]
           /\ lastCall[g].reason = "No upcoming event"
           /\ lastCall[g].ev = 0
           /\ ~lastCall[g].sent /\ ~lastCall[g].posted
           /\ lastCall[g].lpAfter = lastCall[g].lpBefore
           /\ ~lastCall[g].rem.attempt /\ ~lastCall[g].rem.created

\* a due guild with channel, notifications, organization and provider was
\* evaluated when the calendar had nothing ongoing or future, the
\* provider call returning without an error
C18_Witness ==
    \E g \in Guilds :
        /\ lastCall[g].valid /\ ~Ineligible(g) /\ NoneFound(g)
        /\ lastCall[g].fetched
        /\ lastCall[g].reason = "No upcoming event"

\* C19: a forced notifyGuildCore call (/create-announcement) whose
\* organization has a provider, whose provider call finds an event and
\* whose send succeeds posts the announcement, also when the event's local
\* date is not today and when lastPosted[org] already equals the event's
\* date; without a provider or without a found event it sends nothing.
C19_ForcedBypass ==
    lastForced.valid =>
        /\ (lastForced.provider /\ lastForced.found /\ lastForced.sendOK)
              => (lastForced.sent /\ lastForced.posted /\ lastForced.reason = "OK")
        /\ (~lastForced.provider \/ ~lastForced.found) => ~lastForced.sent

\* a forced call has posted an event whose date lastPosted already held
C19_Witness ==
    /\ lastForced.valid /\ lastForced.sent /\ lastForced.posted
    /\ lastForced.lpBefore # 0 /\ lastForced.lpBefore = lastForced.key

\* C20: a calendar entry whose end time is present and earlier than its
\* start time is never returned by the selector, neither as the ongoing
\* entry nor as the next (future) entry.
C20_EndBeforeStartExcluded ==
    (selCall.on /\ selCall.called /\ selCall.res.pick # 0)
    => LET e == selCall.cal[selCall.res.pick]
       IN ~(/\ parseAPITime(e.endDate).ok
            /\ parseAPITime(e.endDate).t < parseAPITime(e.startDate).t)

\* the start instant of entry i of a calendar
SelStartOf(cal, i) == parseISOUTC(cal[i].startDate).t

\* C21: when two candidate entries of the same class (both ongoing or both
\* future) have identical start instants, the one met earlier in the input
\* order is selected, and another call on the same calendar, ignore terms
\* and now returns the same result.
C21_TieBreak ==
    (/\ selCall.on /\ selCall.called /\ Len(selCall.cal) = 2
     /\ SelConsidered(selCall.cal, selCall.ignores) = {1, 2}
     /\ SelStartOf(selCall.cal, 1) = SelStartOf(selCall.cal, 2)
     /\ \/ SelOngoing(selCall.cal, selCall.ignores, selCall.now) = {1, 2}
        \/ SelFuture(selCall.cal, selCall.ignores, selCall.now) = {1, 2})
    => /\ selCall.res.pick = 1
       /\ findNextOrOngoingEventUTC(selCall.cal, selCall.ignores, selCall.now) = selCall.res

\* two different ongoing entries with the same start, and the first one
\* has been returned
C21_Witness ==
    /\ selCall.on /\ selCall.called /\ Len(selCall.cal) = 2
    /\ selCall.cal[1] # selCall.cal[2]
    /\ SelStartOf(selCall.cal, 1) = SelStartOf(selCall.cal, 2)
    /\ SelOngoing(selCall.cal, selCall.ignores, selCall.now) = {1, 2}
    /\ selCall.now > SelStartOf(selCall.cal, 1)
    /\ selCall.res.pick = 1 /\ selCall.res.tag = "ongoing"

\* the entry's label contains one of the ignore terms, case-insensitively
SelIgnored(ce, ignores) ==
    \E i \in 1..Len(ignores) : Contains(ToLower(ce.label), ToLower(ignores[i]))

\* the entry's start time is empty or fails to parse
SelNoStart(ce) == ce.startDate.kind = "empty" \/ ~parseISOUTC(ce.startDate).ok

\* C22: the selector never returns an entry whose label contains an ignore
\* term (case-insensitive substring) or whose start time is empty or
\* unparseable, and removing all such entries from the calendar leaves the
\* selected entry, its class and its times unchanged.
C22_IgnoredNeverSelected ==
    (selCall.on /\ selCall.called)
    => LET cal == selCall.cal
           Kept(ce) == ~SelIgnored(ce, selCall.ignores) /\ ~SelNoStart(ce)
           cleaned == SelectSeq(cal, Kept)
           res == selCall.res
           res2 == findNextOrOngoingEventUTC(cleaned, selCall.ignores, selCall.now)
       IN /\ res.pick # 0 => Kept(cal[res.pick])
          /\ res.tag = res2.tag /\ res.st = res2.st /\ res.en = res2.en
          /\ (res.pick = 0) <=> (res2.pick = 0)
          /\ res.pick # 0 =>
                /\ cleaned[res2.pick] = cal[res.pick]
                /\ res2.pick = Cardinality({i \in 1..res.pick : Kept(cal[i])})

\* an entry ignored through a term in another case comes first and starts
\* earlier, and the later entry has been returned
C22_Witness ==
    /\ selCall.on /\ selCall.called /\ Len(selCall.cal) = 2
    /\ selCall.ignores = << <<"contender">> >>
    /\ selCall.cal[1].label = <<"Contender", "Series">>
    /\ parseISOUTC(selCall.cal[1].startDate).ok
    /\ SelStartOf(selCall.cal, 1) < SelStartOf(selCall.cal, 2)
    /\ SelStartOf(selCall.cal, 1) > selCall.now
    /\ selCall.res.pick = 2 /\ selCall.res.tag = "future"

\* the considered entries with a parseable end and start <= now < end
SelInProgress(cal, ignores, now) ==
    {i \in SelConsidered(cal, ignores) :
        /\ parseISOUTC(cal[i].endDate).ok
        /\ SelStartOf(cal, i) <= now /\ now < parseISOUTC(cal[i].endDate).t}

C24_NoStartedFallback ==
    (selCall.on /\ selCall.called /\ selCall.res.pick # 0)
    => LET e == selCall.cal[selCall.res.pick]
           end == parseAPITime(e.endDate)
       IN ~(/\ parseAPITime(e.startDate).t <= selCall.now
            /\ (~end.ok \/ selCall.now >= end.t))

\* the id tier finds a record: the reference has an id that is in the set
ResIdHit == /\ resCall.pick.ref.kind = "events"
            /\ \E i \in 1..Len(resCall.events) : resCall.events[i].ID = resCall.pick.ref.id

\* the fuzzy tier finds a record
ResFuzzyHit == \E i \in 1..Len(resCall.events) : fuzzyMatch(resCall.events[i], resCall.pick)

\* C25: the fuzzy tier is attempted only if the id tier returned no record,
\* the fetch of the reference is attempted only if the fuzzy tier found no
\* record either, and no request is sent when an earlier tier succeeds.
C25_TierOrder ==
    (resCall.on /\ resCall.called)
    => /\ resCall.res.fuzzy => ~ResIdHit
       /\ resCall.res.fetched => ~ResIdHit /\ ~ResFuzzyHit /\ resCall.res.fuzzy
       /\ ResIdHit => resCall.res.tier = "id"
       /\ (~ResIdHit /\ ResFuzzyHit) => resCall.res.tier = "fuzzy"
       /\ resCall.res.tier \in {"id", "fuzzy"} => ~resCall.res.fetched /\ ~resCall.res.err

\* the reference has an id that is not in the set, fetching is allowed, and
\* the fuzzy tier has returned a record without a request
C25_Witness ==
    /\ resCall.on /\ resCall.called /\ resCall.allowFetch
    /\ resCall.pick.ref.kind = "events" /\ ~ResIdHit
    /\ resCall.res.tier = "fuzzy" /\ resCall.res.idx = 2
    /\ ~resCall.res.fetched

\* what the provider gets from FetchNextOrOngoingEventAndCard after this
\* resolution: an error exactly when the resolver returned one
ResUpstream == IF resCall.res.err THEN "err" ELSE "ok"

\* C26: when neither the id tier nor the fuzzy tier finds a record and the
\* reference cannot be fetched (it is empty, fetching is not allowed, the
\* request fails in transport or the status is not 2xx), resolveFullEvent
\* returns an error and no event, and NextEvent reports (nil, false, error).
C26_ExhaustionIsError ==
    (/\ resCall.on /\ resCall.called
     /\ ~ResIdHit /\ ~ResFuzzyHit
     /\ \/ resCall.pick.ref.kind = "empty"
        \/ ~resCall.allowFetch
        \/ resCall.resp \in {"transport", "status"})
    => /\ resCall.res.err
       /\ resCall.res.ev = NoRootEvent /\ resCall.res.idx = 0
       /\ \A ctx \in {-1, 0, 1} :
             NextEvent(ctx, calendar, clock, ResUpstream)
                = [ev |-> NoEvent, ok |-> FALSE, err |-> TRUE]

\* no tier finds a record, fetching is allowed and the reference is there,
\* the answer has another status than 2xx, and an error has been returned
C26_Witness ==
    /\ resCall.on /\ resCall.called /\ resCall.allowFetch
    /\ ~ResIdHit /\ ~ResFuzzyHit
    /\ resCall.pick.ref.kind = "other"
    /\ resCall.resp = "status"
    /\ resCall.res.err /\ resCall.res.ev = NoRootEvent

\* a name that is not empty and, in lower case, is part of the label or has
\* the label as a part
ResNameFits(name, label) ==
    /\ name # <<>>
    /\ \/ Contains(ToLower(label), ToLower(name))
       \/ Contains(ToLower(name), ToLower(label))

\* C27: a record returned by the fuzzy tier has a start within 48 hours
\* (absolute difference) of the entry's start, and its name or short name
\* is non-empty and is, case-insensitively, a substring of the entry's
\* label or contains it.
C27_FuzzyCondition ==
    (resCall.on /\ resCall.called /\ resCall.res.tier = "fuzzy")
    => LET ev == resCall.res.ev
           evT == parseAPITime(ev.Date)
           pickStart == parseAPITime(resCall.pick.startDate)
       IN /\ resCall.res.idx \in 1..Len(resCall.events)
          /\ ev = resCall.events[resCall.res.idx]
          /\ evT.ok /\ pickStart.ok
          /\ evT.t - pickStart.t <= 48 * 60 /\ pickStart.t - evT.t <= 48 * 60
          /\ \/ ResNameFits(ev.Name, resCall.pick.label)
             \/ ResNameFits(ev.ShortName, resCall.pick.label)

\* the first record fits by name but starts 49 hours after the entry; the
\* second, 48 hours before the entry, fits by its short name only and has
\* been returned
C27_Witness ==
    /\ resCall.on /\ resCall.called /\ Len(resCall.events) = 2
    /\ ResNameFits(resCall.events[1].Name, resCall.pick.label)
    /\ resCall.events[1].Date = IsoTime(3, 3, 3, 0)
    /\ resCall.events[2].Date = IsoTime(2, 27, 2, 0)
    /\ ~ResNameFits(resCall.events[2].Name, resCall.pick.label)
    /\ resCall.res.tier = "fuzzy" /\ resCall.res.idx = 2

\* C28: when the resolved record has no competitions the bouts are fetched
\* by the event's id; when that fetch fails or yields nothing the call
\* still returns the event with ok = true, no error and an empty card;
\* when it succeeds every adapted fight carries the weight class and the
\* two fighter names only.
C28_CardFallback ==
    (fetchCall.on /\ fetchCall.called /\ fetchCall.out.resolved)
    => LET out == fetchCall.out
           got == FetchUFCCardForEvent(out.ev.ID, fetchCall.core)
       IN /\ out.ok /\ ~out.err
          /\ out.secondary <=> (Len(out.ev.Competitions) = 0 /\ out.ev.ID # "")
          /\ (Len(out.ev.Competitions) = 0 /\ (got.err \/ Len(got.bouts) = 0))
                => out.fights = <<>>
          /\ (out.secondary /\ ~got.err /\ Len(got.bouts) > 0)
                => /\ Len(out.fights) = Len(got.bouts)
                   /\ \A i \in 1..Len(out.fights) :
                         /\ out.fights[i].WeightClass = got.bouts[i].WeightClass
                         /\ out.fights[i].RedName = got.bouts[i].Fighter1
                         /\ out.fights[i].BlueName = got.bouts[i].Fighter2
                         /\ out.fights[i].RedRecord = ""
                         /\ out.fights[i].BlueRecord = ""
                         /\ out.fights[i].Winner = ""
                         /\ out.fights[i].Scheduled = 0

\* the record has no competitions, the core API fails on one competition,
\* and the event has been returned with an empty card
C28_Witness ==
    /\ fetchCall.on /\ fetchCall.called /\ fetchCall.out.resolved
    /\ fetchCall.out.secondary
    /\ fetchCall.core = [list |-> "ok", items |-> <<ItemA, ItemFail>>]
    /\ fetchCall.out.ok /\ ~fetchCall.out.err /\ fetchCall.out.fights = <<>>

\* the zone guild g is evaluated in
ZoneOf(g) == guildLocation(st[g].tz, Cfg, LocalZone(Cfg)).loc

\* the local date, in the zone of guild g, of the start of the event the
\* guild's latest evaluation selected
EventDayOf(g) == DateKey(parseAPITime(calendar[lastCall[g].ev].startDate).t, ZoneOf(g))

\* C29: a non-forced notifyGuild call posts only when the selected event's
\* start, in the guild's zone, falls on the local date of the current
\* instant in that zone; when the dates differ it returns "Not event day"
\* and leaves lastPosted unchanged.
C29_DayGate ==
    \A g \in Guilds :
        (lastCall[g].valid /\ lastCall[g].ev # 0) =>
            /\ lastCall[g].today = DateKey(clock, ZoneOf(g))
            /\ (lastCall[g].posted \/ lastCall[g].sent)
                  => EventDayOf(g) = lastCall[g].today
            /\ EventDayOf(g) # lastCall[g].today
                  => /\ ~lastCall[g].posted /\ ~lastCall[g].sent
                     /\ lastCall[g].reason = "Not event day"
                     /\ lastCall[g].lpAfter = lastCall[g].lpBefore

\* a due guild has selected an event that starts on another local date
\* and the call has returned "Not event day"
C29_Witness ==
    \E g \in Guilds :
        /\ lastCall[g].valid /\ lastCall[g].ev # 0
        /\ EventDayOf(g) # DateKey(clock, ZoneOf(g))
        /\ lastCall[g].reason = "Not event day"

\* C30: shouldRunNow is true exactly when the hour of the instant in the
\* guild's zone equals the target hour: the guild's run hour when set, else
\* the hour of the global HH:MM default, else 16 when that default does not
\* parse; neither the minutes of a parseable default nor the minutes of
\* the instant within its local hour change the result.
C30_TargetHour ==
    scan.on =>
        LET zone == guildLocation(scan.tz, scan.cfg, LocalZone(scan.cfg)).loc
            runAt == scan.cfg.RunAt
            parseable == runAt.kind = "hhmm" /\ runAt.hh \in 0..23 /\ runAt.mm \in 0..59
            target == IF scan.runHour \in 0..23 THEN scan.runHour
                      ELSE IF parseable THEN runAt.hh ELSE 16
            hourStart == scan.t - (LocalMinutes(scan.t, zone) % 60)
        IN /\ scan.due <=> (LocalHour(scan.t, zone) = target)
           /\ \A m \in 0..59 :
                 shouldRunNowAt(scan.tz, scan.runHour, scan.cfg, hourStart + m) = scan.due
           /\ parseable =>
                 \A mm \in 0..59 :
                    shouldRunNowAt(scan.tz, scan.runHour,
                                   [scan.cfg EXCEPT !.RunAt = HHMM(runAt.hh, mm)], scan.t)
                       = scan.due

\* a guild without a run hour, under a default that does not parse, is due
\* at a tick past the first: the local hour is 16
C30_Witness ==
    /\ scan.on /\ scan.runHour = -1 /\ scan.cfg.RunAt = HHMM(19, 60)
    /\ scan.tz = "Asia/Kolkata"
    /\ scan.due /\ scan.left < MaxScan

\* C31: a reminder is created only in the evaluation of a due guild that
\* has reminders enabled and an explicitly set organization with a
\* provider, and only when today's date in the guild's zone is the day
\* before the selected event's local date; whether the call is eligible is
\* determined by these conditions alone, whatever the channel, the
\* notifications flag and lastPosted.
C31_DayBeforeGate ==
    \A g \in Guilds :
        lastCall[g].valid =>
            LET rem == lastCall[g].rem
                dayBefore == /\ rem.ev # 0
                             /\ DateKey(clock, ZoneOf(g))
                                   = PrevDateKey(parseAPITime(calendar[rem.ev].startDate).t,
                                                 ZoneOf(g))
                gates == /\ GetGuildEventsEnabled(g) /\ HasGuildOrg(g)
                         /\ GetGuildOrg(g) \in mgr
            IN /\ shouldRunNow(g, Cfg, clock)
               /\ rem.eligible <=> (gates /\ dayBefore)
               /\ rem.attempt => rem.eligible
               /\ rem.created => rem.attempt

\* a guild without a channel, with notifications not enabled and with a
\* lastPosted entry has had its reminder created
C31_Witness ==
    \E g \in Guilds :
        /\ lastCall[g].valid /\ lastCall[g].rem.created
        /\ st[g].channel = "" /\ st[g].enabled # 1
        /\ lastPosted[g]["ufc"] # 0

\* the reminders created so far for guild g, organization org and date
CreatedFor(g, org, date) ==
    {i \in 1..Len(createdLog) :
        createdLog[i].g = g /\ createdLog[i].org = org /\ createdLog[i].date = date}

\* C32: the reminder ledger holds an entry only for a creation that
\* succeeded, with the id that creation returned; after a failed creation
\* the entry stays absent and the next day-before-eligible evaluation
\* attempts the creation again; after a successful one the entry is there
\* when the evaluation ends.
C32_LedgerAfterSuccess ==
    /\ \A r \in scheduled : r.id \in CreatedFor(r.g, r.org, r.date)
    /\ \A g \in Guilds :
          (lastCall[g].valid /\ lastCall[g].rem.eligible) =>
              LET rem == lastCall[g].rem
                  org == GetGuildOrg(g)
              IN /\ rem.created => HasScheduledEvent(g, org, rem.date)
                 /\ (rem.attempt /\ ~rem.created) => ~HasScheduledEvent(g, org, rem.date)
                 /\ rem.attempt <=> (rem.created \/ CreatedFor(g, org, rem.date) = {})

\* the creation failed in the previous eligible evaluation, and this one
\* has attempted it again, succeeded and written the ledger
C32_Witness ==
    \E g \in Guilds :
        /\ lastCall[g].valid
        /\ lastCall[g].afterEligible /\ ~lastCall[g].afterCreated
        /\ lastCall[g].rem.attempt /\ lastCall[g].rem.created
        /\ HasScheduledEvent(g, "ufc", lastCall[g].rem.date)

\* C33: a tick is executed only when the timer set for an hour boundary
\* fires: the list of guilds to evaluate is filled only by that step, once
\* per boundary, and at no other time.
C33_TickOnlyAtBoundary ==
    [][(queue' # queue /\ (queue = <<>> \/ queue' # Tail(queue)))
          => (armed /\ ~armed')]_vars

\* C34: no two executions of runNotifierTick are in progress at the same
\* time: while a tick has guilds left to evaluate, the timer of the next
\* tick is not set, so the next tick cannot begin before this one returns.
C34_TicksSerialized == queue # <<>> => ~armed

\* a tick after the first is in progress, an earlier tick having posted
C34_Witness ==
    /\ queue # <<>> /\ ~armed
    /\ clock > StartClock
    /\ Len(sentLog) > 0

\* C35: only the scheduler writes lastPosted and the reminder ledger: a
\* step of a command handler changes neither of them.
C35_SingleWriter ==
    [][cmds' # cmds => (lastPosted' = lastPosted /\ scheduled' = scheduled)]_vars

\* C36: a guild whose stored zone name is not empty and does not load is
\* due, and has its local day, by the global default zone cfg.TZ whenever
\* that zone loads
C36_MalformedZoneUsesDefault ==
    (scan.on /\ scan.tz # "" /\ ~LoadLocation(scan.tz).ok) =>
        LET def == LoadLocation(scan.cfg.TZ)
        IN def.ok =>
             /\ scan.due <=> (LocalHour(scan.t, def.zone) = targetHour(scan.runHour, scan.cfg))
             /\ scan.day = LocalDay(scan.t, def.zone)

\* the entry a provider result names is a "Contender Series" one
IsContender(cal, out) ==
    out.ok /\ containsAnyIgnore(cal[out.ev.id].label, << <<"Contender", "Series">> >>)

\* C37: what a NextEvent call returns is determined by the flag on that
\* call's own context, whatever calls the instance served before: with the
\* flag absent or true no "Contender Series" entry is returned, with the
\* flag false the entry the selector picks with nothing ignored is returned
C37_PerCallFlag ==
    (provCall.on /\ provCall.n > 0) =>
        LET out == provCall.out
            all == findNextOrOngoingEventUTC(provCall.cal, <<>>, provCall.now)
        IN /\ out = NextEventOn(ufcProvider, provCall.ctx, provCall.cal, provCall.now,
                                provCall.up).out
           /\ provCall.ctx # 0 => ~IsContender(provCall.cal, out)
           /\ (provCall.ctx = 0 /\ provCall.up = "ok") =>
                 (out.ok <=> all.pick # 0) /\ (out.ok => out.ev.id = all.pick)

C37_Witness ==
    /\ provCall.on /\ provCall.n > 1
    /\ provCall.prev = 1 /\ provCall.ctx = 0
    /\ IsContender(provCall.cal, provCall.out)

\* what a non-forced notifyGuildCore call reads: the guild rows, the
\* lastPosted ledger, the registered providers, the calendar and the clock
DecisionInputs == <<st, lastPosted, mgr, calendar, clock>>

\* C38: the step that handles a forced announcement leaves lastPosted as it
\* was, whether or not the send succeeded, and leaves everything a later
\* non-forced decision is computed from as it was, so that decision is the
\* one that would have been taken without the forced call
C38_ForcedLeavesLedger ==
    [][lastForced'.valid =>
          (lastPosted' = lastPosted /\ DecisionInputs' = DecisionInputs)]_vars

C38_Witness ==
    /\ lastForced.valid /\ lastForced.sent /\ lastForced.posted
    /\ lastForced.key # 0 /\ lastForced.lpBefore # lastForced.key
    /\ lastForced.lpAfter = lastForced.lpBefore
    /\ notifyGuild(lastForced.g, clock, "ok", TRUE).posted

\* C39: whatever the interleaving of the tick's reminder path and a
\* /create-event handler of the same guild, no two scheduled events are
\* created for one (guild, org, event local date)
C39_OneReminderPerKey ==
    \A i, j \in 1..Len(createdLog) :
        (/\ createdLog[i].g = createdLog[j].g /\ createdLog[i].org = createdLog[j].org
         /\ createdLog[i].date = createdLog[j].date) => i = j

\* guild g is eligible and due now, and an entry of the calendar starts on
\* today's date in the guild's zone
DueOnEventDay(g) ==
    /\ GetGuildSettings(g).channel # "" /\ GetGuildNotifyEnabled(g)
    /\ HasGuildOrg(g) /\ GetGuildOrg(g) \in mgr
    /\ shouldRunNow(g, Cfg, clock)
    /\ \E i \in 1..Len(calendar) :
          /\ parseAPITime(calendar[i].startDate).ok
          /\ DateKey(parseAPITime(calendar[i].startDate).t, ZoneOf(g)) = DateKey(clock, ZoneOf(g))

\* the guild's evaluation of this hour met a failing provider call or a
\* failing send, or found today's date key recorded
Excused(g) ==
    \/ ~lastCall[g].fetched
    \/ lastCall[g].reason \in {"Send failed", "Already posted today"}

====
